---- MODULE Spec2Model ----
(***************************************************************************)
(* Model of the actor simulation core of rustycropbot: target resolution,  *)
(* behaviour-tree evaluation, behaviour reconciliation, movement routines, *)
(* collision sweep, contact damage (src/src/entity.rs, src/src/trait.rs,   *)
(* src/src/helpers.rs) and the frame loop with the overlap separator and   *)
(* the application of damage events (src/src/main.rs).                     *)
(*                                                                         *)
(* Fixed-point units standing for the f32 quantities of the source:        *)
(*   length    1 = 0.001 px          (LenScale per px)                     *)
(*   velocity  1 = 0.1 px/s          (VelScale per px/s)                   *)
(*   time      1 = 1/6000 s          (TimeScale per s)                     *)
(*   direction 1000 = unit length    (DirScale)                            *)
(*   ratios    1000 = 1.0            (RatioScale: condition values, lerp t)*)
(* Sequences are 1-based: index k of the model is index k-1 of the source. *)
(***************************************************************************)
EXTENDS Integers, Sequences, FiniteSets, TLC

VARIABLES
    db,                   \* main.rs:242  the loaded definition store (EntityDatabase)
    entities,             \* main.rs:257  live set, Vec<Entity>
    player,               \* main.rs      the player (position, hp)
    player_dead,          \* main.rs:326
    damage_events,        \* main.rs:324  the frame's damage events of the driver
    entity_target_cache,  \* main.rs:325  the cache between frames
    ctx,                  \* main.rs:404  the per-frame EntityContext
    ent_idx,              \* main.rs:420  index of the next actor to update
    dt,                   \* main.rs:330  the frame's time step
    pc,                   \* position of the driver in the loop body
    frame,                \* number of frames started
    ENTITY_ID_COUNTER,    \* entity.rs:900
    probe,                \* a call of a pure function and its result
    hit_clock             \* history: per actor id, the simulated time since its
                          \* last DamageEvent and the number of its events

vars == <<db, entities, player, player_dead, damage_events, entity_target_cache,
          ctx, ent_idx, dt, pc, frame, ENTITY_ID_COUNTER, probe, hit_clock>>

----------------------------------------------------------------------------
(* Units *)
LenScale == 1000
VelScale == 10
TimeScale == 6000
DirScale == 1000
RatioScale == 1000

(* Bounds of the exploration *)
MaxSpawns == 2
MaxFrames == 3
\* saturation of the history clock and of the history's event count
MaxClock == 3600
MaxCount == 2
\* the most children the root of a probed tree has
MaxChildren == 3
\* colliders handed to one resolve_collisions_axis call
MaxColliders == 2
\* apply_damage calls on one probed actor
MaxHits == 3
\* the largest live set handed to resolve_entity_overlaps in a single call
MaxActors == 3
\* consecutive Updates of one probed actor whose behaviours stay selected
MaxCalls == 4

----------------------------------------------------------------------------
(* Arithmetic helpers standing for f32 operations *)

Abs(a) == IF a < 0 THEN -a ELSE a
Max(a, b) == IF a >= b THEN a ELSE b
Min(a, b) == IF a <= b THEN a ELSE b
\* division rounding toward zero, symmetric in the sign like float rounding
Div(a, b) == IF a >= 0 THEN a \div b ELSE -((-a) \div b)
\* floor(a / b) for b > 0, as f32::floor of a quotient
FloorDiv(a, b) == a \div b
\* ceil(a / b) for a >= 0, b > 0
CeilDiv(a, b) == (a + b - 1) \div b
Clamp(v, lo, hi) == IF v < lo THEN lo ELSE IF v > hi THEN hi ELSE v

RECURSIVE ISqrtIter(_, _, _)
ISqrtIter(n, lo, hi) ==
    IF lo >= hi THEN lo
    ELSE LET mid == (lo + hi + 1) \div 2
         IN  IF mid * mid <= n THEN ISqrtIter(n, mid, hi)
                               ELSE ISqrtIter(n, lo, mid - 1)
\* integer square root (floor), n < 2^31
ISqrt(n) == ISqrtIter(n, 0, 46340)

Vec2(x, y) == [x |-> x, y |-> y]
ZERO == Vec2(0, 0)
VAdd(a, b) == Vec2(a.x + b.x, a.y + b.y)
VSub(a, b) == Vec2(a.x - b.x, a.y - b.y)
length_squared(v) == v.x * v.x + v.y * v.y
length(v) == ISqrt(length_squared(v))
distance_squared(a, b) == length_squared(VSub(a, b))
distance(a, b) == length(VSub(a, b))
\* v / |v| as a direction of length DirScale (v non-zero)
normalize(v) ==
    LET Unit(len) == IF len = 0 THEN ZERO
                     ELSE Vec2(Div(v.x * DirScale, len), Div(v.y * DirScale, len))
    IN  Unit(length(v))
\* a + (b - a) * t, t in RatioScale units
lerp(a, b, t) == Vec2(a.x + Div((b.x - a.x) * t, RatioScale),
                      a.y + Div((b.y - a.y) * t, RatioScale))
\* direction (DirScale) times speed (velocity units)
DirTimes(d, s) == Vec2(Div(d.x * s, DirScale), Div(d.y * s, DirScale))
\* velocity times dt, as a length
Displacement(v, step) == Div(v * step * (LenScale \div VelScale), TimeScale)

Rect(x, y, w, h) == [x |-> x, y |-> y, w |-> w, h |-> h]
\* macroquad Rect::overlaps (edges inclusive)
overlaps(a, b) ==
    /\ a.x <= b.x + b.w
    /\ a.x + a.w >= b.x
    /\ a.y <= b.y + b.h
    /\ a.y + a.h >= b.y

\* Option: None, or Some(v); targets carry their own tag instead
None == [tag |-> "None"]
Some(v) == [tag |-> "Some", v |-> v]
IsSome(o) == o.tag # "None"

EmptyParams == [k \in {} |-> 0]
Get(p, k, d) == IF k \in DOMAIN p THEN p[k] ELSE d

----------------------------------------------------------------------------
(* Definition flags, entity.rs:64-73 *)
DEF_FLAG_TARGET_PLAYER == 1
DEF_FLAG_TARGET_NEAREST_ENTITY == 2
DEF_FLAG_TARGET_NEAREST_ENEMY == 4
DEF_FLAG_TARGET_NEAREST_FRIEND == 8
DEF_FLAG_TARGET_NEAREST_MISC == 16
DEF_FLAG_NO_ENTITY_COLLISION == 32
DEF_FLAG_NO_ENEMY_COLLISION == 64
DEF_FLAG_NO_FRIEND_COLLISION == 128
DEF_FLAG_NO_MISC_COLLISION == 256
DEF_FLAG_NO_PLAYER_COLLISION == 512

\* (flags & bit) != 0 for a single-bit constant
has_flag(flags, bit) == (flags \div bit) % 2 = 1

----------------------------------------------------------------------------
(* Behaviour-tree nodes, entity.rs:123-136 *)
ActionNode(name, multiple, params, extra) ==
    [type |-> "Action", name |-> name, multiple |-> multiple,
     params |-> params, extra |-> extra]
ConditionNode(name, value) == [type |-> "Condition", name |-> name, value |-> value]
SequenceNode(children) == [type |-> "Sequence", children |-> children]
SelectorNode(children) == [type |-> "Selector", children |-> children]

(* Traits of the definition store (TraitDef: id, stats, flags) *)
Traits == <<
    [id |-> "target_player", stats |-> EmptyParams, flags |-> {"target_player"}],
    [id |-> "no_map_collision", stats |-> [armor |-> 2], flags |-> {"no_map_collision"}],
    [id |-> "hunter", stats |-> [damage |-> 3], flags |-> {"target_nearest_enemy"}],
    [id |-> "curious", stats |-> [damage |-> 1, armor |-> 1],
     flags |-> {"target_nearest_entity", "target_nearest_enemy", "no_entity_collision"}],
    [id |-> "tough", stats |-> [hp |-> 3], flags |-> {}],
    [id |-> "shy", stats |-> EmptyParams,
     flags |-> {"no_player_collision", "no_enemy_collision"}],
    [id |-> "aloof", stats |-> EmptyParams,
     flags |-> {"no_friend_collision", "no_misc_collision"}],
    [id |-> "sociable", stats |-> EmptyParams, flags |-> {"target_nearest_misc"}]
>>

trait_indices_have_flag(trait_indices, flag) ==
    \E k \in 1..Len(trait_indices) : flag \in Traits[trait_indices[k]].flags

FlagBit(cond, bit) == IF cond THEN bit ELSE 0

entity_flags_from_trait_indices(ti) ==
      FlagBit(trait_indices_have_flag(ti, "target_player"), DEF_FLAG_TARGET_PLAYER)
    + FlagBit(trait_indices_have_flag(ti, "target_nearest_entity"), DEF_FLAG_TARGET_NEAREST_ENTITY)
    + FlagBit(trait_indices_have_flag(ti, "target_nearest_enemy"), DEF_FLAG_TARGET_NEAREST_ENEMY)
    + FlagBit(trait_indices_have_flag(ti, "target_nearest_friend"), DEF_FLAG_TARGET_NEAREST_FRIEND)
    + FlagBit(trait_indices_have_flag(ti, "target_nearest_misc"), DEF_FLAG_TARGET_NEAREST_MISC)
    + FlagBit(trait_indices_have_flag(ti, "no_entity_collision"), DEF_FLAG_NO_ENTITY_COLLISION)
    + FlagBit(trait_indices_have_flag(ti, "no_enemy_collision"), DEF_FLAG_NO_ENEMY_COLLISION)
    + FlagBit(trait_indices_have_flag(ti, "no_friend_collision"), DEF_FLAG_NO_FRIEND_COLLISION)
    + FlagBit(trait_indices_have_flag(ti, "no_misc_collision"), DEF_FLAG_NO_MISC_COLLISION)
    + FlagBit(trait_indices_have_flag(ti, "no_player_collision"), DEF_FLAG_NO_PLAYER_COLLISION)

\* one EntityDef as load_entities_from_dir builds it (entity.rs:1493-1526)
EntityDef(id, kind, hitbox, traits, tree, base_stats, speed, raw_collides) ==
    [id |-> id, kind |-> kind, hitbox |-> hitbox, traits |-> traits,
     behavior_tree |-> tree, base_stats |-> base_stats, speed |-> speed,
     collides |-> raw_collides /\ ~trait_indices_have_flag(traits, "no_map_collision"),
     flags |-> entity_flags_from_trait_indices(traits)]

ViratTree ==
    SelectorNode(<<
        ActionNode("seek", FALSE, [speed |-> 600], EmptyParams),
        SequenceNode(<<
            ConditionNode("target_in_range", Some(20)),
            ActionNode("dash_at_target", TRUE,
                       [dash_speed |-> 3000, dash_duration |-> 420],
                       [cooldown |-> 3000]) >>) >>)

ChopbotTree ==
    SequenceNode(<<
        ConditionNode("target_in_range", None),
        ActionNode("bark", TRUE, EmptyParams, EmptyParams),
        ActionNode("seek", FALSE, EmptyParams, EmptyParams) >>)

VirabirdTree ==
    SelectorNode(<<
        SequenceNode(<<
            ConditionNode("target_in_range", Some(40)),
            ActionNode("peck", FALSE, EmptyParams, EmptyParams) >>),
        SequenceNode(<<>>) >>)

(* The definition store: db.entities, in load order enemy, friend, misc *)
Entities == <<
    EntityDef("virat", "Enemy", Rect(-4000, -6000, 4000, 4000), <<1, 5>>,
              Some(ViratTree), [damage |-> 5, hp |-> 1], 600, TRUE),
    EntityDef("chopbot", "Friend", Rect(-4000, -6000, 4000, 4000), <<3>>,
              Some(ChopbotTree), [hp |-> 2], 600, TRUE),
    EntityDef("virabird", "Friend", Rect(-2000, -3000, 2000, 2000), <<4, 2>>,
              Some(VirabirdTree), [speed |-> 900, armor |-> 1], 600, TRUE),
    EntityDef("dummy", "Misc", Rect(-4000, -6000, 4000, 4000), <<>>,
              None, EmptyParams, 600, TRUE),
    EntityDef("stalker", "Misc", Rect(-4000, -6000, 4000, 4000), <<1, 3>>,
              None, EmptyParams, 600, TRUE),
    EntityDef("crate", "Misc", Rect(0, 0, 10000, 10000), <<>>,
              None, EmptyParams, 600, TRUE),
    EntityDef("wisp", "Misc", Rect(-4000, -6000, 4000, 4000), <<2, 6>>,
              None, EmptyParams, 600, TRUE),
    EntityDef("hermit", "Misc", Rect(-4000, -6000, 4000, 4000), <<7, 8>>,
              None, EmptyParams, 600, TRUE)
>>

\* a lookup that answers an unknown id with the first template
entity_lookup_default(id) ==
    IF \E i \in 1..Len(db.entities) : db.entities[i].id = id
    THEN Some(CHOOSE i \in 1..Len(db.entities) : db.entities[i].id = id)
    ELSE Some(1)

\* EntityDatabase::entity_lookup.get, entity.rs:822-824
entity_lookup(id) ==
    IF \E i \in 1..Len(db.entities) : db.entities[i].id = id
    THEN Some(CHOOSE i \in 1..Len(db.entities) : db.entities[i].id = id)
    ELSE None

(* MovementRegistry::new, entity.rs:584-595 *)
RegistryNames == {"idle", "wander", "seek", "flee", "dash_at_target", "virabird_ai"}
registry_has(name) == name \in RegistryNames
\* MovementRegistry::resolve: the routine registered under the name, or idle
registry_resolve(name) == IF name \in RegistryNames THEN name ELSE "idle"

----------------------------------------------------------------------------
(* Behaviour-tree evaluation, entity.rs:966-1081 *)

SelectedAction(name, params) == [name |-> name, params |-> params]

\* Target::position
TargetPosition(t) == t.pos

\* the numeric passthrough fields override params; `cooldown` is copied to
\* `dash_cooldown` when that key is absent
action_params(params, extra) ==
    LET merged == [k \in DOMAIN params \cup DOMAIN extra |->
                       IF k \in DOMAIN extra THEN extra[k] ELSE params[k]]
    IN  IF "cooldown" \in DOMAIN merged /\ "dash_cooldown" \notin DOMAIN merged
        THEN [k \in DOMAIN merged \cup {"dash_cooldown"} |->
                  IF k = "dash_cooldown" THEN merged["cooldown"] ELSE merged[k]]
        ELSE merged

CAMERA_FOV == 300

\* target_in_range asking for a distance under the range
eval_condition_strict(name, value, entity, view_height) ==
    IF name = "target_in_range"
    THEN IF ~IsSome(entity.current_target) THEN FALSE
         ELSE LET v == IF IsSome(value) THEN value.v ELSE RatioScale
                  range == Div(Max(v, 0) * Max(view_height, 1) * LenScale, RatioScale)
              IN  distance(entity.pos, TargetPosition(entity.current_target)) < range
    ELSE FALSE

\* entity.rs:1070-1081
eval_condition(name, value, entity, view_height) ==
    IF name = "target_in_range"
    THEN IF ~IsSome(entity.current_target) THEN FALSE
         ELSE LET v == IF IsSome(value) THEN value.v ELSE RatioScale
                  range == Div(Max(v, 0) * Max(view_height, 1) * LenScale, RatioScale)
              IN  distance(entity.pos, TargetPosition(entity.current_target)) <= range
    ELSE FALSE

RECURSIVE eval_behavior(_, _, _)
RECURSIVE eval_sequence(_, _, _, _, _, _)
RECURSIVE eval_selector(_, _, _, _, _, _, _)

\* the Sequence loop that on a failing child hands back what the earlier
\* children had produced
eval_sequence_partial(children, k, action, multiple_actions, entity, view_height) ==
    IF k > Len(children)
    THEN [action |-> action, multiple |-> multiple_actions, ok |-> TRUE]
    ELSE LET r == eval_behavior(children[k], entity, view_height)
         IN  IF ~r.ok
             THEN [action |-> action, multiple |-> multiple_actions, ok |-> FALSE]
             ELSE eval_sequence(children, k + 1,
                                IF IsSome(r.action) THEN r.action ELSE action,
                                multiple_actions \o r.multiple, entity, view_height)

\* the Sequence loop keeping the primary action of the first child that
\* produced one
eval_sequence_first(children, k, action, multiple_actions, entity, view_height) ==
    IF k > Len(children)
    THEN [action |-> action, multiple |-> multiple_actions, ok |-> TRUE]
    ELSE LET r == eval_behavior(children[k], entity, view_height)
         IN  IF ~r.ok
             THEN [action |-> None, multiple |-> <<>>, ok |-> FALSE]
             ELSE eval_sequence(children, k + 1,
                                IF IsSome(action) THEN action ELSE r.action,
                                multiple_actions \o r.multiple, entity, view_height)

\* the loop of the Sequence arm from child k on, entity.rs:1014-1024
eval_sequence(children, k, action, multiple_actions, entity, view_height) ==
    IF k > Len(children)
    THEN [action |-> action, multiple |-> multiple_actions, ok |-> TRUE]
    ELSE LET r == eval_behavior(children[k], entity, view_height)
         IN  IF ~r.ok
             THEN [action |-> None, multiple |-> <<>>, ok |-> FALSE]
             ELSE eval_sequence(children, k + 1,
                                IF IsSome(r.action) THEN r.action ELSE action,
                                multiple_actions \o r.multiple, entity, view_height)

\* the loop of the Selector arm from child k on, entity.rs:1030-1040
eval_selector(children, k, primary, multiple_actions, any_ok, entity, view_height) ==
    IF k > Len(children)
    THEN [action |-> primary, multiple |-> multiple_actions, ok |-> any_ok]
    ELSE LET r == eval_behavior(children[k], entity, view_height)
         IN  IF r.ok
             THEN eval_selector(children, k + 1,
                                IF ~IsSome(primary) THEN r.action ELSE primary,
                                multiple_actions \o r.multiple, TRUE,
                                entity, view_height)
             ELSE eval_selector(children, k + 1, primary, multiple_actions, any_ok,
                                entity, view_height)

eval_behavior(node, entity, view_height) ==
    CASE node.type = "Action" ->
            LET action == SelectedAction(node.name, action_params(node.params, node.extra))
            IN  [action |-> Some(action),
                 multiple |-> IF node.multiple THEN <<action>> ELSE <<>>,
                 ok |-> TRUE]
      [] node.type = "Condition" ->
            [action |-> None, multiple |-> <<>>,
             ok |-> eval_condition(node.name, node.value, entity, view_height)]
      [] node.type = "Sequence" ->
            eval_sequence(node.children, 1, None, <<>>, entity, view_height)
      [] node.type = "Selector" ->
            eval_selector(node.children, 1, None, <<>>, FALSE, entity, view_height)

\* the secondary actions from k on appended without the duplicate test
dedup_push_all(out, multiple, k) == out \o SubSeq(multiple, k, Len(multiple))

RECURSIVE dedup_push(_, _, _)
\* the loop of select_actions over the secondary actions, entity.rs:1059-1066
dedup_push(out, multiple, k) ==
    IF k > Len(multiple) THEN out
    ELSE LET action == multiple[k]
             duplicate == \E i \in 1..Len(out) :
                              out[i].name = action.name /\ out[i].params = action.params
         IN  dedup_push(IF duplicate THEN out ELSE Append(out, action), multiple, k + 1)

select_actions(node, entity, view_height) ==
    LET Collect(r) ==
            IF ~r.ok THEN <<>>
            ELSE dedup_push(IF IsSome(r.action) THEN <<r.action.v>> ELSE <<>>,
                            r.multiple, 1)
    IN  Collect(eval_behavior(node, entity, view_height))

RECURSIVE first_action_with_registry(_)
RECURSIVE first_action_in_children(_, _)
first_action_in_children(children, k) ==
    IF k > Len(children) THEN None
    ELSE LET r == first_action_with_registry(children[k])
         IN  IF IsSome(r) THEN r ELSE first_action_in_children(children, k + 1)

first_action_with_registry(node) ==
    CASE node.type = "Action" ->
            IF registry_has(node.name) THEN Some(node.name) ELSE None
      [] node.type \in {"Selector", "Sequence"} ->
            first_action_in_children(node.children, 1)
      [] node.type = "Condition" -> None

----------------------------------------------------------------------------
(* Targets and target resolution, entity.rs:274-295, 613-710 *)

PlayerTarget(pos, hitbox) == [tag |-> "Player", pos |-> pos, hitbox |-> hitbox]
EntityTarget(id, def, kind, pos, hitbox, alive) ==
    [tag |-> "Entity", id |-> id, def |-> def, kind |-> kind, pos |-> pos,
     hitbox |-> hitbox, alive |-> alive]

\* is_kind_targetable without the has_specific_target_flags distinction: the
\* any-entity bit admits every kind
is_kind_targetable_any(def_flags, kind) ==
    LET target_any == has_flag(def_flags, DEF_FLAG_TARGET_NEAREST_ENTITY)
    IN  CASE kind = "Enemy" ->
                target_any \/ has_flag(def_flags, DEF_FLAG_TARGET_NEAREST_ENEMY)
          [] kind = "Friend" ->
                target_any \/ has_flag(def_flags, DEF_FLAG_TARGET_NEAREST_FRIEND)
          [] kind = "Misc" ->
                target_any \/ has_flag(def_flags, DEF_FLAG_TARGET_NEAREST_MISC)

\* the rule deciding whether a candidate of a kind may be targeted under the
\* nearest-* flags (closure is_kind_targetable, entity.rs:633-660)
is_kind_targetable(def_flags, kind) ==
    LET target_any == has_flag(def_flags, DEF_FLAG_TARGET_NEAREST_ENTITY)
        target_enemy == has_flag(def_flags, DEF_FLAG_TARGET_NEAREST_ENEMY)
        target_friend == has_flag(def_flags, DEF_FLAG_TARGET_NEAREST_FRIEND)
        target_misc == has_flag(def_flags, DEF_FLAG_TARGET_NEAREST_MISC)
        has_specific_target_flags == target_enemy \/ target_friend \/ target_misc
    IN  CASE kind = "Enemy" ->
                IF has_specific_target_flags THEN target_enemy
                ELSE target_any \/ target_enemy
          [] kind = "Friend" ->
                IF has_specific_target_flags THEN target_friend
                ELSE target_any \/ target_friend
          [] kind = "Misc" ->
                IF has_specific_target_flags THEN target_misc
                ELSE target_any \/ target_misc

\* the 4-bit cache mask, entity.rs:661-664
target_mask(def_flags) ==
      FlagBit(has_flag(def_flags, DEF_FLAG_TARGET_NEAREST_ENTITY), 1)
    + FlagBit(has_flag(def_flags, DEF_FLAG_TARGET_NEAREST_ENEMY), 2)
    + FlagBit(has_flag(def_flags, DEF_FLAG_TARGET_NEAREST_FRIEND), 4)
    + FlagBit(has_flag(def_flags, DEF_FLAG_TARGET_NEAREST_MISC), 8)

\* Iterator::find on the snapshot: the first entry satisfying the test, or None
FindFirst(seq, Test(_)) ==
    IF \E i \in 1..Len(seq) : Test(seq[i])
    THEN seq[CHOOSE i \in 1..Len(seq) :
                 Test(seq[i]) /\ \A j \in 1..(i - 1) : ~Test(seq[j])]
    ELSE None

RECURSIVE scan_candidates_last(_, _, _, _, _, _)
\* the scan replacing the best candidate also at an equal distance
scan_candidates_last(snapshot, k, uid, pos, def_flags, best) ==
    IF k > Len(snapshot) THEN best
    ELSE LET candidate == snapshot[k]
             skip == \/ candidate.id = uid
                     \/ ~candidate.alive
                     \/ ~is_kind_targetable(def_flags, candidate.kind)
             dist_sq == distance_squared(pos, candidate.pos)
             keep == IsSome(best) /\ dist_sq > best.dist
         IN  scan_candidates_last(snapshot, k + 1, uid, pos, def_flags,
                 IF skip \/ keep THEN best
                 ELSE [tag |-> "Some", dist |-> dist_sq, target |-> candidate])

RECURSIVE scan_candidates(_, _, _, _, _, _)
\* the full scan from candidate k on, entity.rs:688-705; best is None or
\* [tag |-> "Some", dist, target]
scan_candidates(snapshot, k, uid, pos, def_flags, best) ==
    IF k > Len(snapshot) THEN best
    ELSE LET candidate == snapshot[k]
             skip == \/ candidate.id = uid
                     \/ ~candidate.alive
                     \/ ~is_kind_targetable(def_flags, candidate.kind)
             dist_sq == distance_squared(pos, candidate.pos)
             keep == IsSome(best) /\ dist_sq >= best.dist
         IN  scan_candidates(snapshot, k + 1, uid, pos, def_flags,
                 IF skip \/ keep THEN best
                 ELSE [tag |-> "Some", dist |-> dist_sq, target |-> candidate])

\* the cached target looked up by its id alone
cached_candidate_by_id(snapshot, cached, def_flags) ==
    FindFirst(snapshot, LAMBDA candidate : candidate.id = cached.id)

\* the cached target looked up again in this frame's snapshot,
\* entity.rs:671-679
cached_candidate(snapshot, cached, def_flags) ==
    FindFirst(snapshot, LAMBDA candidate :
                            /\ candidate.id = cached.id
                            /\ candidate.alive
                            /\ is_kind_targetable(def_flags, candidate.kind))

\* the target the full scan ends with, entity.rs:688-706
nearest_candidate(snapshot, entity, def_flags) ==
    LET Target(best) == IF IsSome(best) THEN best.target ELSE None
    IN  Target(scan_candidates(snapshot, 1, entity.uid, entity.pos, def_flags, None))

CacheInsert(cache, key, value) ==
    [k \in DOMAIN cache \cup {key} |-> IF k = key THEN value ELSE cache[k]]

\* resolve_nearest with a cached "no target" treated like a miss: the scan
\* runs again and its result replaces the entry
resolve_nearest_rescan(c, entity, def_flags, mask) ==
    LET key == <<entity.uid, mask>>
        hit == key \in DOMAIN c.target_cache
        cached == IF hit THEN c.target_cache[key] ELSE None
        Valid(candidate) == /\ candidate.id = cached.id
                            /\ candidate.alive
                            /\ is_kind_targetable(def_flags, candidate.kind)
        current_target == IF hit /\ IsSome(cached) THEN FindFirst(c.entities, Valid)
                          ELSE None
        best == scan_candidates(c.entities, 1, entity.uid, entity.pos, def_flags, None)
        resolved == IF IsSome(best) THEN best.target ELSE None
    IN  IF hit /\ IsSome(cached) /\ IsSome(current_target)
        THEN [result |-> current_target, target_cache |-> c.target_cache]
        ELSE [result |-> resolved,
              target_cache |-> CacheInsert(c.target_cache, key, resolved)]

\* resolve_nearest trusting the cached copy instead of the snapshot entry
resolve_nearest_stale(c, entity, def_flags, mask) ==
    LET key == <<entity.uid, mask>>
        hit == key \in DOMAIN c.target_cache
        cached == IF hit THEN c.target_cache[key] ELSE None
        best == scan_candidates(c.entities, 1, entity.uid, entity.pos, def_flags, None)
        resolved == IF IsSome(best) THEN best.target ELSE None
    IN  IF hit
        THEN [result |-> cached, target_cache |-> c.target_cache]
        ELSE [result |-> resolved,
              target_cache |-> CacheInsert(c.target_cache, key, resolved)]

\* resolve_nearest scanning anew whenever the cache remembers an actor
resolve_nearest_fresh(c, entity, def_flags, mask) ==
    LET key == <<entity.uid, mask>>
        Store(resolved) ==
            [result |-> resolved,
             target_cache |-> CacheInsert(c.target_cache, key, resolved)]
    IN  IF key \in DOMAIN c.target_cache /\ ~IsSome(c.target_cache[key])
        THEN [result |-> None, target_cache |-> c.target_cache]
        ELSE Store(nearest_candidate(c.entities, entity, def_flags))

\* the cached-target branch and the full scan, entity.rs:669-709;
\* returns the target and the cache after the call
resolve_nearest(c, entity, def_flags, mask) ==
    LET key == <<entity.uid, mask>>
        hit == key \in DOMAIN c.target_cache
        cached == IF hit THEN c.target_cache[key] ELSE None
        Store(resolved) ==
            [result |-> resolved,
             target_cache |-> CacheInsert(c.target_cache, key, resolved)]
        Decide(current_target) ==
            IF hit /\ IsSome(cached) /\ IsSome(current_target)
            THEN [result |-> current_target, target_cache |-> c.target_cache]
            ELSE IF hit /\ ~IsSome(cached)
            THEN [result |-> None, target_cache |-> c.target_cache]
            ELSE Store(nearest_candidate(c.entities, entity, def_flags))
    IN  Decide(IF hit /\ IsSome(cached)
               THEN cached_candidate(c.entities, cached, def_flags)
               ELSE None)

\* resolve_target asking the target-player flag before the forced target
resolve_target_player_first(c, entity) ==
    LET def_flags == db.entities[entity.def].flags
        mask == target_mask(def_flags)
    IN  IF has_flag(def_flags, DEF_FLAG_TARGET_PLAYER)
        THEN [result |-> c.player, target_cache |-> c.target_cache]
        ELSE IF IsSome(c.target)
        THEN [result |-> c.target, target_cache |-> c.target_cache]
        ELSE IF mask = 0
        THEN [result |-> None, target_cache |-> c.target_cache]
        ELSE resolve_nearest(c, entity, def_flags, mask)

\* EntityContext::resolve_target, entity.rs:623-709
resolve_target(c, entity) ==
    LET def_flags == db.entities[entity.def].flags
        mask == target_mask(def_flags)
    IN  IF IsSome(c.target)
        THEN [result |-> c.target, target_cache |-> c.target_cache]
        ELSE IF has_flag(def_flags, DEF_FLAG_TARGET_PLAYER)
        THEN [result |-> c.player, target_cache |-> c.target_cache]
        ELSE IF mask = 0
        THEN [result |-> None, target_cache |-> c.target_cache]
        ELSE resolve_nearest(c, entity, def_flags, mask)

----------------------------------------------------------------------------
(* Movement routines, trait.rs:29-159.  Each returns the actor's velocity  *)
(* and the behaviour's runtime state after the call.                       *)

BehaviorRuntime(name, params, timer, dir, cooldown) ==
    [name |-> name, func |-> registry_resolve(name), params |-> params,
     timer |-> timer, dir |-> dir, cooldown |-> cooldown]

\* t = (accel * dt).clamp(0, 1) in RatioScale units; accel in 1/s
SmoothFactor(accel, step) == Clamp(Div(accel * step * RatioScale, TimeScale), 0, RatioScale)

\* the steering shared by wander, seek and flee: turn from the current
\* heading toward desired_dir and move at speed (trait.rs:57-66, 85-94, 114-123)
Steer(entity, desired_dir, t, speed) ==
    LET Turn(smooth_dir) ==
            IF length_squared(smooth_dir) > 100
            THEN DirTimes(normalize(smooth_dir), speed)
            ELSE entity.vel
    IN  Turn(lerp(IF length_squared(entity.vel) > 0
                  THEN normalize(entity.vel) ELSE desired_dir,
                  desired_dir, t))

movement_idle(entity, behavior, step, params, rnd) ==
    [vel |-> ZERO, behavior |-> behavior]

\* movement_wander picking a direction only when the timer runs out
movement_wander_timer_only(entity, behavior, step, params, rnd) ==
    LET speed == Get(params, "speed", entity.speed)
        accel == Get(params, "accel", 10)
        interval == Get(params, "interval", 9000)
        timer1 == behavior.timer - step
        b1 == IF timer1 <= 0
              THEN [behavior EXCEPT !.timer = Max(interval, 600), !.dir = rnd.dir]
              ELSE [behavior EXCEPT !.timer = timer1]
    IN  [vel |-> Steer(entity, b1.dir, SmoothFactor(accel, step), speed),
         behavior |-> b1]

\* trait.rs:39-67
movement_wander(entity, behavior, step, params, rnd) ==
    LET speed == Get(params, "speed", entity.speed)
        accel == Get(params, "accel", 10)
        interval == Get(params, "interval", 9000)
        timer1 == behavior.timer - step
        repick == timer1 <= 0 \/ length_squared(behavior.dir) = 0
        b1 == IF repick
              THEN [behavior EXCEPT !.timer = Max(interval, 600), !.dir = rnd.dir]
              ELSE [behavior EXCEPT !.timer = timer1]
    IN  [vel |-> Steer(entity, b1.dir, SmoothFactor(accel, step), speed),
         behavior |-> b1]

movement_seek(entity, behavior, step, params, rnd) ==
    LET speed == Get(params, "speed", entity.speed)
        accel == Get(params, "accel", 12)
        dir == VSub(TargetPosition(entity.current_target), entity.pos)
    IN  IF ~IsSome(entity.current_target) THEN [vel |-> entity.vel, behavior |-> behavior]
        ELSE IF length_squared(dir) > 100
        THEN [vel |-> Steer(entity, normalize(dir), SmoothFactor(accel, step), speed),
              behavior |-> behavior]
        ELSE [vel |-> entity.vel, behavior |-> behavior]

movement_flee(entity, behavior, step, params, rnd) ==
    LET speed == Get(params, "speed", entity.speed)
        accel == Get(params, "accel", 12)
        dir == VSub(entity.pos, TargetPosition(entity.current_target))
    IN  IF ~IsSome(entity.current_target) THEN [vel |-> entity.vel, behavior |-> behavior]
        ELSE IF length_squared(dir) > 100
        THEN [vel |-> Steer(entity, normalize(dir), SmoothFactor(accel, step), speed),
              behavior |-> behavior]
        ELSE [vel |-> entity.vel, behavior |-> behavior]

\* the dash that starts as soon as its timer has run out, cooldown or not
movement_dash_no_cooldown(entity, behavior, step, params, rnd) ==
    LET dash_speed == Get(params, "dash_speed", 11000)
        dash_duration == Get(params, "dash_duration", 420)
        dash_cooldown == Get(params, "dash_cooldown", 3000)
        cooldown1 == IF behavior.cooldown > 0 THEN Max(behavior.cooldown - step, 0)
                     ELSE behavior.cooldown
        timer1 == IF behavior.timer > 0 THEN Max(behavior.timer - step, 0)
                  ELSE behavior.timer
        dir == VSub(TargetPosition(entity.current_target), entity.pos)
        start == /\ timer1 <= 0
                 /\ IsSome(entity.current_target)
                 /\ length_squared(dir) > 100
        b1 == IF start
              THEN [behavior EXCEPT !.dir = normalize(dir), !.timer = dash_duration,
                                    !.cooldown = dash_cooldown]
              ELSE [behavior EXCEPT !.timer = timer1, !.cooldown = cooldown1]
    IN  [vel |-> IF b1.timer > 0 THEN VAdd(entity.vel, DirTimes(b1.dir, dash_speed))
                 ELSE entity.vel,
         behavior |-> b1]

\* trait.rs:127-159
movement_dash_at_target(entity, behavior, step, params, rnd) ==
    LET dash_speed == Get(params, "dash_speed", 11000)
        dash_duration == Get(params, "dash_duration", 420)
        dash_cooldown == Get(params, "dash_cooldown", 3000)
        cooldown1 == IF behavior.cooldown > 0 THEN Max(behavior.cooldown - step, 0)
                     ELSE behavior.cooldown
        timer1 == IF behavior.timer > 0 THEN Max(behavior.timer - step, 0)
                  ELSE behavior.timer
        dir == VSub(TargetPosition(entity.current_target), entity.pos)
        start == /\ timer1 <= 0 /\ cooldown1 <= 0
                 /\ IsSome(entity.current_target)
                 /\ length_squared(dir) > 100
        b1 == IF start
              THEN [behavior EXCEPT !.dir = normalize(dir), !.timer = dash_duration,
                                    !.cooldown = dash_cooldown]
              ELSE [behavior EXCEPT !.timer = timer1, !.cooldown = cooldown1]
    IN  [vel |-> IF b1.timer > 0 THEN VAdd(entity.vel, DirTimes(b1.dir, dash_speed))
                 ELSE entity.vel,
         behavior |-> b1]

\* movement_virabird_ai is registered (entity.rs:593) but its body is not part
\* of the sources at hand: it may set the actor's velocity and its own
\* behaviour's runtime fields, here to values drawn by the caller
movement_virabird_ai(entity, behavior, step, params, rnd) ==
    [vel |-> rnd.vb_vel, behavior |-> [behavior EXCEPT !.timer = rnd.vb_timer]]

\* the call (func)(self, behavior, dt, &params, ctx), entity.rs:391-394
call_movement(entity, behavior, step, rnd) ==
    CASE behavior.func = "idle" -> movement_idle(entity, behavior, step, behavior.params, rnd)
      [] behavior.func = "wander" -> movement_wander(entity, behavior, step, behavior.params, rnd)
      [] behavior.func = "seek" -> movement_seek(entity, behavior, step, behavior.params, rnd)
      [] behavior.func = "flee" -> movement_flee(entity, behavior, step, behavior.params, rnd)
      [] behavior.func = "dash_at_target" ->
            movement_dash_at_target(entity, behavior, step, behavior.params, rnd)
      [] behavior.func = "virabird_ai" ->
            movement_virabird_ai(entity, behavior, step, behavior.params, rnd)

RECURSIVE run_behaviors(_, _, _, _, _)
\* the loop over the behaviours from entry k on, entity.rs:389-396
run_behaviors(entity, behaviors, k, step, rnd) ==
    IF k > Len(behaviors) THEN [entity EXCEPT !.behaviors = behaviors]
    ELSE LET Rest(r) == run_behaviors([entity EXCEPT !.vel = r.vel],
                                      [behaviors EXCEPT ![k] = r.behavior],
                                      k + 1, step, rnd)
         IN  Rest(call_movement(entity, behaviors[k], step, rnd))

----------------------------------------------------------------------------
(* Terrain, map.rs.  The tile grid is a small fixture; grid_size equals    *)
(* tile_size and the border thickness is 0 (main.rs:159).                  *)

TILE_SIZE == 16
TileSizeLen == TILE_SIZE * LenScale
\* collision_mask & 0x0F of every tile, rows by y then x
MapCollisionMask == << <<0, 2>>,
                       <<0, 0>> >>
MapWidth == Len(MapCollisionMask[1])
MapHeight == Len(MapCollisionMask)

\* TileMap::get_border_hitbox, map.rs:726-735
get_border_hitbox == Rect(0, 0, MapWidth * TileSizeLen, MapHeight * TileSizeLen)

\* TileMap::grid_index, map.rs:1186-1196 (grid coordinates from 0)
grid_index(position) ==
    LET gx == FloorDiv(position.x, TileSizeLen)
        gy == FloorDiv(position.y, TileSizeLen)
    IN  IF gx < 0 \/ gy < 0 \/ gx >= MapWidth \/ gy >= MapHeight THEN None
        ELSE [tag |-> "Some", x |-> gx, y |-> gy]

Bit(mask, b) == (mask \div b) % 2 = 1

\* the rectangles of one tile, map.rs:1491-1513
tile_hitboxes(x, y) ==
    LET mask == IF x < 0 \/ y < 0 \/ x >= MapWidth \/ y >= MapHeight THEN 0
                ELSE MapCollisionMask[y + 1][x + 1] % 16
        tx == x * TileSizeLen
        ty == y * TileSizeLen
        half == TileSizeLen \div 2
    IN  IF mask = 0 THEN <<>>
        ELSE IF mask = 15 THEN <<Rect(tx, ty, TileSizeLen, TileSizeLen)>>
        ELSE (IF Bit(mask, 1) THEN <<Rect(tx, ty, half, half)>> ELSE <<>>)
          \o (IF Bit(mask, 2) THEN <<Rect(tx + half, ty, half, half)>> ELSE <<>>)
          \o (IF Bit(mask, 4) THEN <<Rect(tx, ty + half, half, half)>> ELSE <<>>)
          \o (IF Bit(mask, 8) THEN <<Rect(tx + half, ty + half, half, half)>> ELSE <<>>)

RECURSIVE fill_cells(_, _, _, _, _)
\* the double loop of fill_hitboxes_around_grid from cell (x, y) on
fill_cells(x, y, start_x, end_x, end_y) ==
    IF y > end_y THEN <<>>
    ELSE IF x > end_x THEN fill_cells(start_x, y + 1, start_x, end_x, end_y)
    ELSE tile_hitboxes(x, y) \o fill_cells(x + 1, y, start_x, end_x, end_y)

\* TileMap::fill_hitboxes_around_grid, map.rs:1474-1515
fill_hitboxes_around_grid(grid, radius) ==
    fill_cells(grid.x - radius, grid.y - radius, grid.x - radius,
               grid.x + radius, grid.y + radius)

\* entity.rs:906-910
collision_radius(vel, step) ==
    LET speed == length(vel)
        tiles == CeilDiv(speed * step,
                         ((TimeScale * VelScale) \div LenScale) * Max(TileSizeLen, LenScale))
    IN  Clamp(1 + tiles, 1, 4)

\* entity.rs:912-917
hitbox_center_world(pos, hitbox) ==
    Vec2(pos.x + hitbox.x + hitbox.w \div 2, pos.y + hitbox.y + hitbox.h \div 2)

\* EntityDef::world_hitbox, entity.rs:255-262
world_hitbox(def, pos) ==
    Rect(pos.x + db.entities[def].hitbox.x, pos.y + db.entities[def].hitbox.y,
         db.entities[def].hitbox.w, db.entities[def].hitbox.h)

\* the clamp of the position itself, the hitbox offset and size left out
clamp_hitbox_to_rect_origin(hitbox, pos, bounds) ==
    Vec2(Clamp(pos.x, bounds.x, bounds.x + bounds.w),
         Clamp(pos.y, bounds.y, bounds.y + bounds.h))

\* helpers.rs:235-242
clamp_hitbox_to_rect(hitbox, pos, bounds) ==
    LET min_x == bounds.x - hitbox.x
        max_x == bounds.x + bounds.w - hitbox.w - hitbox.x
        min_y == bounds.y - hitbox.y
        max_y == bounds.y + bounds.h - hitbox.h - hitbox.y
    IN  Vec2(Clamp(pos.x, min_x, max_x), Clamp(pos.y, min_y, max_y))

----------------------------------------------------------------------------
(* Collision sweep, helpers.rs:103-181 and entity.rs:919-964 *)

COLLISION_EPSILON == 1

RECURSIVE sweep_colliders(_, _, _, _, _, _, _)
\* the loop over the colliders from entry k on; acc is [hit, candidate]
sweep_colliders(rect, lo_off, hi_off, vel_axis, colliders, k, acc) ==
    IF k > Len(colliders) THEN acc
    ELSE LET collider == colliders[k]
             start == IF lo_off.axis = "X" THEN collider.x ELSE collider.y
             size == IF lo_off.axis = "X" THEN collider.w ELSE collider.h
             target == IF vel_axis > 0
                       THEN start - hi_off - COLLISION_EPSILON
                       ELSE start + size - lo_off.v + COLLISION_EPSILON
             better == IF vel_axis > 0 THEN target < acc.candidate
                       ELSE target > acc.candidate
         IN  sweep_colliders(rect, lo_off, hi_off, vel_axis, colliders, k + 1,
                 IF ~overlaps(rect, collider) THEN acc
                 ELSE [hit |-> TRUE,
                       candidate |-> IF better THEN target ELSE acc.candidate])

\* resolve_collisions_axis with the hit flag raised before the loop
resolve_collisions_axis_hit(hitbox, pos, vel_axis, colliders, axis) ==
    LET rect == Rect(pos.x + hitbox.x, pos.y + hitbox.y, hitbox.w, hitbox.h)
        lo_off == [axis |-> axis, v |-> IF axis = "X" THEN hitbox.x ELSE hitbox.y]
        hi_off == IF axis = "X" THEN hitbox.w + hitbox.x ELSE hitbox.h + hitbox.y
        r == sweep_colliders(rect, lo_off, hi_off, vel_axis, colliders, 1,
                 [hit |-> TRUE, candidate |-> IF axis = "X" THEN pos.x ELSE pos.y])
    IN  IF vel_axis = 0 THEN [pos |-> pos, vel |-> vel_axis]
        ELSE [pos |-> IF axis = "X" THEN [pos EXCEPT !.x = r.candidate]
                      ELSE [pos EXCEPT !.y = r.candidate],
              vel |-> 0]

\* the resolver sweeping also for an axis velocity of 0
resolve_collisions_axis_unguarded(hitbox, pos, vel_axis, colliders, axis) ==
    LET rect == Rect(pos.x + hitbox.x, pos.y + hitbox.y, hitbox.w, hitbox.h)
        lo_off == [axis |-> axis, v |-> IF axis = "X" THEN hitbox.x ELSE hitbox.y]
        hi_off == IF axis = "X" THEN hitbox.w + hitbox.x ELSE hitbox.h + hitbox.y
        Land(r) ==
            IF r.hit
            THEN [pos |-> IF axis = "X" THEN [pos EXCEPT !.x = r.candidate]
                          ELSE [pos EXCEPT !.y = r.candidate],
                  vel |-> 0]
            ELSE [pos |-> pos, vel |-> vel_axis]
    IN  Land(sweep_colliders(rect, lo_off, hi_off, vel_axis, colliders, 1,
                 [hit |-> FALSE,
                  candidate |-> IF axis = "X" THEN pos.x ELSE pos.y]))

\* helpers.rs:103-181
resolve_collisions_axis(hitbox, pos, vel_axis, colliders, axis) ==
    LET rect == Rect(pos.x + hitbox.x, pos.y + hitbox.y, hitbox.w, hitbox.h)
        lo_off == [axis |-> axis, v |-> IF axis = "X" THEN hitbox.x ELSE hitbox.y]
        hi_off == IF axis = "X" THEN hitbox.w + hitbox.x ELSE hitbox.h + hitbox.y
        Land(r) ==
            IF r.hit
            THEN [pos |-> IF axis = "X" THEN [pos EXCEPT !.x = r.candidate]
                          ELSE [pos EXCEPT !.y = r.candidate],
                  vel |-> 0]
            ELSE [pos |-> pos, vel |-> vel_axis]
    IN  IF vel_axis = 0 THEN [pos |-> pos, vel |-> vel_axis]
        ELSE Land(sweep_colliders(rect, lo_off, hi_off, vel_axis, colliders, 1,
                      [hit |-> FALSE,
                       candidate |-> IF axis = "X" THEN pos.x ELSE pos.y]))

\* the loop over the snapshot ending at the first hitbox it gathers
collect_others_first(snapshot, k, entity_flags, entity_uid, target_entity_id) ==
    LET kept == {j \in k..Len(snapshot) :
                    ~(\/ snapshot[j].id = entity_uid
                      \/ target_entity_id = Some(snapshot[j].id)
                      \/ snapshot[j].kind = "Enemy"
                            /\ has_flag(entity_flags, DEF_FLAG_NO_ENEMY_COLLISION)
                      \/ snapshot[j].kind = "Friend"
                            /\ has_flag(entity_flags, DEF_FLAG_NO_FRIEND_COLLISION)
                      \/ snapshot[j].kind = "Misc"
                            /\ has_flag(entity_flags, DEF_FLAG_NO_MISC_COLLISION))}
    IN  IF kept = {} THEN <<>>
        ELSE <<snapshot[CHOOSE j \in kept : \A i \in kept : j <= i].hitbox>>

RECURSIVE collect_others(_, _, _, _, _)
\* the loop over the snapshot from entry k on, entity.rs:949-963
collect_others(snapshot, k, entity_flags, entity_uid, target_entity_id) ==
    IF k > Len(snapshot) THEN <<>>
    ELSE LET other == snapshot[k]
             skip == \/ other.id = entity_uid
                     \/ target_entity_id = Some(other.id)
                     \/ other.kind = "Enemy" /\ has_flag(entity_flags, DEF_FLAG_NO_ENEMY_COLLISION)
                     \/ other.kind = "Friend" /\ has_flag(entity_flags, DEF_FLAG_NO_FRIEND_COLLISION)
                     \/ other.kind = "Misc" /\ has_flag(entity_flags, DEF_FLAG_NO_MISC_COLLISION)
         IN  (IF skip THEN <<>> ELSE <<other.hitbox>>)
             \o collect_others(snapshot, k + 1, entity_flags, entity_uid, target_entity_id)

\* the obstacles gathered without regard to the player being the target
collect_dynamic_with_player(entity_flags, entity_uid, current_target, c) ==
    LET target_entity_id == IF current_target.tag = "Entity" THEN Some(current_target.id)
                            ELSE None
    IN  IF has_flag(entity_flags, DEF_FLAG_NO_ENTITY_COLLISION) THEN <<>>
        ELSE (IF /\ ~has_flag(entity_flags, DEF_FLAG_NO_PLAYER_COLLISION)
                 /\ IsSome(c.player)
              THEN <<c.player.hitbox>> ELSE <<>>)
             \o collect_others(c.entities, 1, entity_flags, entity_uid, target_entity_id)

\* entity.rs:919-964
collect_dynamic_collision_hitboxes(entity_flags, entity_uid, current_target, c) ==
    LET target_entity_id == IF current_target.tag = "Entity" THEN Some(current_target.id)
                            ELSE None
        target_is_player == current_target.tag = "Player"
    IN  IF has_flag(entity_flags, DEF_FLAG_NO_ENTITY_COLLISION) THEN <<>>
        ELSE (IF /\ ~has_flag(entity_flags, DEF_FLAG_NO_PLAYER_COLLISION)
                 /\ ~target_is_player
                 /\ IsSome(c.player)
              THEN <<c.player.hitbox>> ELSE <<>>)
             \o collect_others(c.entities, 1, entity_flags, entity_uid, target_entity_id)

----------------------------------------------------------------------------
(* EntityInstance::update, entity.rs:338-481, stage by stage *)

CONTACT_COOLDOWN == 1800

\* desired_actions without the idle substitute for an empty selection
desired_actions_nofallback(entity, view_height) ==
    LET tree == db.entities[entity.def].behavior_tree
        selected == IF IsSome(tree) THEN select_actions(tree.v, entity, view_height)
                    ELSE <<>>
    IN  SelectSeq(selected, LAMBDA a : registry_has(a.name))

\* entity.rs:358-366: a selection filtered by the registry, or idle
desired_from(selected) ==
    LET OrIdle(filtered) ==
            IF filtered = <<>> THEN <<SelectedAction("idle", EmptyParams)>>
            ELSE filtered
    IN  OrIdle(SelectSeq(selected, LAMBDA a : registry_has(a.name)))

\* entity.rs:352-366: the tree's selection filtered by the registry, or idle
desired_actions(entity, view_height) ==
    LET tree == db.entities[entity.def].behavior_tree
    IN  desired_from(IF IsSome(tree)
                     THEN select_actions(tree.v, entity, view_height)
                     ELSE <<>>)

RemoveAt(seq, i) == SubSeq(seq, 1, i - 1) \o SubSeq(seq, i + 1, Len(seq))

\* reconciliation that never looks at the previous list: every desired action
\* from k on gets a new entry
sync_behaviors_fresh(existing, desired, k, synced) ==
    synced \o [i \in 1..(Len(desired) - k + 1) |->
                  BehaviorRuntime(desired[k + i - 1].name, desired[k + i - 1].params,
                                  0, ZERO, 0)]

RECURSIVE sync_behaviors(_, _, _, _)
\* the reconciliation loop from desired action k on, entity.rs:368-387
sync_behaviors(existing, desired, k, synced) ==
    IF k > Len(desired) THEN synced
    ELSE LET d == desired[k]
             Same(i) == existing[i].name = d.name /\ existing[i].params = d.params
         IN  IF \E i \in 1..Len(existing) : Same(i)
             THEN LET index == CHOOSE i \in 1..Len(existing) :
                                   Same(i) /\ \A j \in 1..(i - 1) : ~Same(j)
                  IN  sync_behaviors(RemoveAt(existing, index), desired, k + 1,
                                     Append(synced, existing[index]))
             ELSE sync_behaviors(existing, desired, k + 1,
                                 Append(synced, BehaviorRuntime(d.name, d.params, 0, ZERO, 0)))

\* entity.rs:398-413
max_speed_of(entity) ==
    LET DashSpeed(b) == IF b.name # "dash_at_target" \/ b.timer <= 0 THEN 0
                        ELSE Abs(Get(b.params, "dash_speed", 22000))
        RECURSIVE Fold(_, _)
        Fold(k, acc) == IF k > Len(entity.behaviors) THEN acc
                        ELSE Fold(k + 1, Max(acc, DashSpeed(entity.behaviors[k])))
    IN  Fold(1, Max(entity.speed, VelScale))

\* the clamp applied to each component on its own
clamp_speed_axes(entity) ==
    LET Cap(max_speed) == Vec2(Clamp(entity.vel.x, -max_speed, max_speed),
                               Clamp(entity.vel.y, -max_speed, max_speed))
    IN  Cap(max_speed_of(entity))

clamp_speed(entity) ==
    LET Cap(max_speed, speed) ==
            IF speed > max_speed
            THEN Vec2(Div(entity.vel.x * max_speed, speed),
                      Div(entity.vel.y * max_speed, speed))
            ELSE entity.vel
    IN  Cap(max_speed_of(entity), length(entity.vel))

\* the terrain rectangles around the probe, entity.rs:430-436 and 453-459
terrain_hitboxes(def, pos, vel, step) ==
    LET Around(grid) ==
            IF db.entities[def].collides /\ IsSome(grid)
            THEN fill_hitboxes_around_grid(grid, collision_radius(vel, step))
            ELSE <<>>
    IN  Around(grid_index(hitbox_center_world(pos, db.entities[def].hitbox)))

\* the sweep of one axis against the scratch buffer filled for it,
\* entity.rs:439-449 (X) and 462-472 (Y); pos is the position after the step
sweep_axis(entity, pos, scratch, axis) ==
    LET Land(r) ==
            [entity EXCEPT !.pos = r.pos,
                           !.vel = IF axis = "X" THEN [@ EXCEPT !.x = r.vel]
                                   ELSE [@ EXCEPT !.y = r.vel],
                           !.collision_scratch = scratch]
    IN  IF scratch # <<>>
        THEN Land(resolve_collisions_axis(
                      db.entities[entity.def].hitbox, pos,
                      IF axis = "X" THEN entity.vel.x ELSE entity.vel.y,
                      scratch, axis))
        ELSE [entity EXCEPT !.pos = pos, !.collision_scratch = scratch]

\* the step along one axis: the scratch buffer is the terrain around the new
\* position followed by the dynamic hitboxes, entity.rs:428-449 and 451-472
move_axis(entity, dynamic, step, axis) ==
    LET Swept(pos) ==
            sweep_axis(entity, pos,
                       terrain_hitboxes(entity.def, pos, entity.vel, step) \o dynamic,
                       axis)
    IN  Swept(IF axis = "X"
              THEN [entity.pos EXCEPT !.x = @ + Displacement(entity.vel.x, step)]
              ELSE [entity.pos EXCEPT !.y = @ + Displacement(entity.vel.y, step)])

\* entity.rs:424-478 with the dynamic hitboxes gathered
collide_with(entity, dynamic, step) ==
    IF db.entities[entity.def].collides \/ dynamic # <<>>
    THEN [move_axis(move_axis(entity, dynamic, step, "X"), dynamic, step, "Y")
              EXCEPT !.dynamic_collision_scratch = dynamic]
    ELSE [entity EXCEPT !.pos = Vec2(@.x + Displacement(entity.vel.x, step),
                                     @.y + Displacement(entity.vel.y, step)),
                        !.dynamic_collision_scratch = dynamic]

\* entity.rs:415-478: returns the actor with pos, vel and scratch buffers set
move_and_collide(entity, c, step) ==
    collide_with(entity,
                 collect_dynamic_collision_hitboxes(db.entities[entity.def].flags,
                                                    entity.uid, entity.current_target, c),
                 step)

DamageEvent(amount, target) == [amount |-> amount, target |-> target]

\* the contact check without the overlap test: an eligible target is hit
\* wherever it stands
contact_damage_events_afar(entity, c) ==
    LET damage == Get(entity.stats, "damage", 0)
        target == entity.current_target
        def_flags == db.entities[entity.def].flags
        Live(candidate) == candidate.id = target.id /\ candidate.alive
        target_live == FindFirst(c.entities, Live)
        eligible ==
            CASE target.tag = "Player" ->
                    has_flag(def_flags, DEF_FLAG_TARGET_PLAYER) /\ IsSome(c.player)
              [] target.tag = "Entity" ->
                    IsSome(target_live) /\ is_kind_targetable(def_flags, target_live.kind)
              [] OTHER -> FALSE
    IN  IF damage <= 0 \/ entity.contact_cooldown > 0 \/ ~eligible THEN <<>>
        ELSE <<DamageEvent(damage, target)>>

\* entity.rs:505-575: the events appended (none or one)
contact_damage_events(entity, c) ==
    LET damage == Get(entity.stats, "damage", 0)
        target == entity.current_target
        def_flags == db.entities[entity.def].flags
        target_player == has_flag(def_flags, DEF_FLAG_TARGET_PLAYER)
        Live(candidate) == candidate.id = target.id /\ candidate.alive
        target_live == FindFirst(c.entities, Live)
        target_hitbox ==
            CASE target.tag = "Player" ->
                    IF target_player /\ IsSome(c.player) THEN Some(c.player.hitbox)
                    ELSE None
              [] target.tag = "Entity" ->
                    IF IsSome(target_live) /\ is_kind_targetable(def_flags, target_live.kind)
                    THEN Some(target_live.hitbox) ELSE None
              [] OTHER -> None
    IN  IF damage <= 0 \/ entity.contact_cooldown > 0 THEN <<>>
        ELSE IF ~IsSome(target_hitbox) THEN <<>>
        ELSE IF overlaps(world_hitbox(entity.def, entity.pos), target_hitbox.v)
        THEN <<DamageEvent(damage, target)>>
        ELSE <<>>

\* apply_contact_damage that overwrites the frame's list with its own event
apply_contact_damage_overwrite(entity, c) ==
    LET events == contact_damage_events(entity, c)
    IN  [entity |-> IF events # <<>>
                    THEN [entity EXCEPT !.contact_cooldown = CONTACT_COOLDOWN]
                    ELSE entity,
         ctx |-> [c EXCEPT !.damage_events = IF events # <<>> THEN events ELSE @]]

\* apply_contact_damage that appends the event and leaves the cooldown alone
apply_contact_damage_ungated(entity, c) ==
    [entity |-> entity,
     ctx |-> [c EXCEPT !.damage_events = @ \o contact_damage_events(entity, c)]]

apply_contact_damage(entity, c) ==
    LET Emit(events) ==
            [entity |-> IF events # <<>>
                        THEN [entity EXCEPT !.contact_cooldown = CONTACT_COOLDOWN]
                        ELSE entity,
             ctx |-> [c EXCEPT !.damage_events = @ \o events]]
    IN  Emit(contact_damage_events(entity, c))

\* entity.rs:346-350: velocity reset, target resolution, cooldown tick
begin_update(entity, c, step) ==
    LET Resolved(r) ==
            [entity |-> [entity EXCEPT
                             !.vel = ZERO,
                             !.current_target = r.result,
                             !.contact_cooldown = IF @ > 0 THEN Max(@ - step, 0) ELSE @],
             ctx |-> [c EXCEPT !.target_cache = r.target_cache]]
    IN  Resolved(resolve_target(c, entity))

\* entity.rs:368-387
reconcile(entity, view_height) ==
    [entity EXCEPT !.behaviors =
         sync_behaviors(entity.behaviors, desired_actions(entity, view_height), 1, <<>>)]

\* entity.rs:389-413
move_behaviors(entity, step, rnd) ==
    LET Clamped(moved) == [moved EXCEPT !.vel = clamp_speed(moved)]
    IN  Clamped(run_behaviors(entity, entity.behaviors, 1, step, rnd))

\* the update with the contact-damage check ahead of the collision sweep
update_resolved_damage_first(s1, step, rnd) ==
    LET Swept(hit) == [entity |-> move_and_collide(hit.entity, s1.ctx, step),
                       ctx |-> hit.ctx]
    IN  Swept(apply_contact_damage(
                  move_behaviors(reconcile(s1.entity, s1.ctx.view_height), step, rnd),
                  s1.ctx))

\* entity.rs:352-481: the update from the resolved target on; s1 is the
\* actor and the context begin_update leaves
update_resolved(s1, step, rnd) ==
    apply_contact_damage(
        move_and_collide(
            move_behaviors(reconcile(s1.entity, s1.ctx.view_height), step, rnd),
            s1.ctx, step),
        s1.ctx)

\* the update that also writes the actor's new place into its snapshot entry
update_publishing(entity, c, step, rnd) ==
    LET Publish(r) ==
            [entity |-> r.entity,
             ctx |-> [r.ctx EXCEPT !.entities =
                         [k \in 1..Len(c.entities) |->
                             IF c.entities[k].id = r.entity.uid
                             THEN [c.entities[k] EXCEPT
                                      !.pos = r.entity.pos,
                                      !.hitbox = world_hitbox(r.entity.def, r.entity.pos)]
                             ELSE c.entities[k]]]]
    IN  Publish(update_resolved(begin_update(entity, c, step), step, rnd))

update(entity, c, step, rnd) ==
    update_resolved(begin_update(entity, c, step), step, rnd)

----------------------------------------------------------------------------
(* Spawn and health, entity.rs:837-904 *)

\* a merge in which the second block replaces the values of the first
stat_merge_overwrite(a, b) ==
    [k \in DOMAIN a \cup DOMAIN b |-> IF k \in DOMAIN b THEN b[k] ELSE a[k]]

\* StatBlock::merge, entity.rs:96-100
stat_merge(a, b) ==
    [k \in DOMAIN a \cup DOMAIN b |-> Get(a, k, 0) + Get(b, k, 0)]

RECURSIVE merge_traits(_, _, _)
\* the loop over the template's traits from entry k on, entity.rs:846-849
merge_traits(stats, trait_indices, k) ==
    IF k > Len(trait_indices) THEN stats
    ELSE merge_traits(stat_merge(stats, db.traits[trait_indices[k]].stats),
                      trait_indices, k + 1)

\* the name of the behaviour a new actor starts with, entity.rs:852-861
spawn_action(def) ==
    LET first == IF IsSome(def.behavior_tree)
                 THEN first_action_with_registry(def.behavior_tree.v) ELSE None
        action == IF IsSome(first) THEN first.v ELSE "idle"
    IN  IF registry_has(action) THEN action ELSE "idle"

\* EntityDatabase::spawn with the id the counter hands out, entity.rs:837-888
\* a counter that hands out its value and stays
next_entity_id_stuck(counter) == [id |-> counter, counter |-> counter]

\* next_entity_id, entity.rs:900-904: fetch_add(1) on ENTITY_ID_COUNTER
\* returns the value before the addition
next_entity_id(counter) == [id |-> counter, counter |-> counter + 1]

spawn(id, pos, uid) ==
    LET index == entity_lookup(id)
        def == db.entities[index.v]
        stats == merge_traits(def.base_stats, def.traits, 1)
        max_hp == Max(Get(stats, "hp", 1), 1)
    IN  IF ~IsSome(index) THEN None
        ELSE [tag |-> "Some",
              v |-> [uid |-> uid,
                     def |-> index.v,
                     pos |-> pos,
                     vel |-> ZERO,
                     speed |-> Max(Get(stats, "speed", def.speed), VelScale),
                     behaviors |-> <<BehaviorRuntime(spawn_action(def), EmptyParams,
                                                     0, ZERO, 0)>>,
                     stats |-> stats,
                     hp |-> max_hp,
                     max_hp |-> max_hp,
                     collision_scratch |-> <<>>,
                     dynamic_collision_scratch |-> <<>>,
                     current_target |-> None,
                     contact_cooldown |-> 0]]

\* EntityInstance::apply_damage, entity.rs:892-897 (Player::apply_damage,
\* player.rs:181-186, is the same function of hp)
\* apply_damage without the test of the amount
apply_damage_signed(hp, amount) == Max(hp - amount, 0)

\* EntityInstance::apply_damage, entity.rs:891-898
apply_damage(hp, amount) == IF amount <= 0 THEN hp ELSE Max(hp - amount, 0)

\* EntityInstance::is_dashing, entity.rs:495-503
is_dashing(entity) ==
    /\ entity.behaviors # <<>>
    /\ entity.behaviors[1].name \in {"dash_at_target", "virabird_ai"}
    /\ entity.behaviors[1].timer > 0

----------------------------------------------------------------------------
(* Overlap separator, main.rs:723-856 *)

OVERLAP_CELL_SIZE == 32
OVERLAP_PASSES == 3

\* main.rs:826-833
rect_cell_range(rect, cell_size) ==
    LET cell == Max(cell_size, LenScale)
    IN  [min_cx |-> FloorDiv(rect.x, cell), max_cx |-> FloorDiv(rect.x + rect.w, cell),
         min_cy |-> FloorDiv(rect.y, cell), max_cy |-> FloorDiv(rect.y + rect.h, cell)]

\* main.rs:849-856
blocks_kind(def_idx, kind) ==
    LET flags == db.entities[def_idx].flags
    IN  CASE kind = "Enemy" -> has_flag(flags, DEF_FLAG_NO_ENEMY_COLLISION)
          [] kind = "Friend" -> has_flag(flags, DEF_FLAG_NO_FRIEND_COLLISION)
          [] kind = "Misc" -> has_flag(flags, DEF_FLAG_NO_MISC_COLLISION)

\* the rule asking only the first definition about the kind of the second
entities_should_collide_oneway(a_def_idx, b_def_idx) ==
    IF \/ has_flag(db.entities[a_def_idx].flags, DEF_FLAG_NO_ENTITY_COLLISION)
       \/ has_flag(db.entities[b_def_idx].flags, DEF_FLAG_NO_ENTITY_COLLISION)
    THEN FALSE
    ELSE ~blocks_kind(a_def_idx, db.entities[b_def_idx].kind)

\* main.rs:835-847
entities_should_collide(a_def_idx, b_def_idx) ==
    IF \/ has_flag(db.entities[a_def_idx].flags, DEF_FLAG_NO_ENTITY_COLLISION)
       \/ has_flag(db.entities[b_def_idx].flags, DEF_FLAG_NO_ENTITY_COLLISION)
    THEN FALSE
    ELSE /\ ~blocks_kind(a_def_idx, db.entities[b_def_idx].kind)
         /\ ~blocks_kind(b_def_idx, db.entities[a_def_idx].kind)

\* the bucket of a grid cell: the indices of the actors whose hitbox range
\* covers the cell, in actor order (main.rs:739-748)
grid_bucket(hitboxes, cx, cy) ==
    SelectSeq([k \in 1..Len(hitboxes) |-> k],
              LAMBDA k : LET r == rect_cell_range(hitboxes[k], OVERLAP_CELL_SIZE * LenScale)
                         IN  /\ r.min_cx <= cx /\ cx <= r.max_cx
                             /\ r.min_cy <= cy /\ cy <= r.max_cy)

RECURSIVE visit_cells(_, _, _, _, _)
\* the indices met while walking the cells of actor i's range from (cx, cy)
\* on, bucket by bucket (main.rs:759-765)
visit_cells(hitboxes, r, cx, cy, i) ==
    IF cy > r.max_cy THEN <<>>
    ELSE IF cx > r.max_cx THEN visit_cells(hitboxes, r, r.min_cx, cy + 1, i)
    ELSE grid_bucket(hitboxes, cx, cy) \o visit_cells(hitboxes, r, cx + 1, cy, i)

RECURSIVE first_visits_unmarked(_, _, _, _)
\* the partners j > i as often as they are met, without the visitation stamp
first_visits_unmarked(met, k, i, marked) ==
    IF k > Len(met) THEN <<>>
    ELSE IF met[k] <= i THEN first_visits_unmarked(met, k + 1, i, marked)
    ELSE <<met[k]>> \o first_visits_unmarked(met, k + 1, i, marked)

RECURSIVE first_visits(_, _, _, _)
\* the partners j > i in the order they are first met: the visitation stamp
\* skips a partner already marked for this i (main.rs:766-772)
first_visits(met, k, i, marked) ==
    IF k > Len(met) THEN <<>>
    ELSE IF met[k] <= i \/ met[k] \in marked THEN first_visits(met, k + 1, i, marked)
    ELSE <<met[k]>> \o first_visits(met, k + 1, i, marked \cup {met[k]})

\* the pairs one pass evaluates, in order
RECURSIVE pass_pairs(_, _)
pass_pairs(hitboxes, i) ==
    IF i > Len(hitboxes) THEN <<>>
    ELSE LET r == rect_cell_range(hitboxes[i], OVERLAP_CELL_SIZE * LenScale)
             partners == first_visits(visit_cells(hitboxes, r, r.min_cx, r.min_cy, i),
                                      1, i, {})
         IN  [k \in 1..Len(partners) |-> <<i, partners[k]>>] \o pass_pairs(hitboxes, i + 1)

\* the value of collide_cache for the unordered pair of definitions, entered
\* from the rule on a miss, main.rs:773-782; returns the value and the cache
can_collide(collide_cache, a_def_idx, b_def_idx) ==
    LET pair == IF a_def_idx <= b_def_idx THEN <<a_def_idx, b_def_idx>>
                ELSE <<b_def_idx, a_def_idx>>
    IN  IF pair \in DOMAIN collide_cache
        THEN [value |-> collide_cache[pair], collide_cache |-> collide_cache]
        ELSE [value |-> entities_should_collide(a_def_idx, b_def_idx),
              collide_cache |->
                  [q \in DOMAIN collide_cache \cup {pair} |->
                      IF q = pair THEN entities_should_collide(a_def_idx, b_def_idx)
                      ELSE collide_cache[q]]]

\* pair_push without the epsilon added to the half penetration
pair_push_exact(collides, hitboxes, i, j) ==
    LET a_hb == hitboxes[i]
        b_hb == hitboxes[j]
        overlap_x == Min(a_hb.x + a_hb.w, b_hb.x + b_hb.w) - Max(a_hb.x, b_hb.x)
        overlap_y == Min(a_hb.y + a_hb.h, b_hb.y + b_hb.h) - Max(a_hb.y, b_hb.y)
        sign_x == IF 2 * a_hb.x + a_hb.w <= 2 * b_hb.x + b_hb.w THEN -1 ELSE 1
        sign_y == IF 2 * a_hb.y + a_hb.h <= 2 * b_hb.y + b_hb.h THEN -1 ELSE 1
    IN  IF ~collides THEN None
        ELSE IF overlap_x <= 0 \/ overlap_y <= 0 THEN None
        ELSE IF overlap_x <= overlap_y
        THEN [tag |-> "Some", axis |-> "X", push |-> sign_x * Div(overlap_x, 2)]
        ELSE [tag |-> "Some", axis |-> "Y", push |-> sign_y * Div(overlap_y, 2)]

\* the correction of one pair from the pass-start hitboxes, main.rs:783-811,
\* collides being the value can_collide of the pair: none, or the axis and
\* the signed amount added to i and subtracted from j
pair_push(collides, hitboxes, i, j) ==
    LET a_hb == hitboxes[i]
        b_hb == hitboxes[j]
        overlap_x == Min(a_hb.x + a_hb.w, b_hb.x + b_hb.w) - Max(a_hb.x, b_hb.x)
        overlap_y == Min(a_hb.y + a_hb.h, b_hb.y + b_hb.h) - Max(a_hb.y, b_hb.y)
        sign_x == IF 2 * a_hb.x + a_hb.w <= 2 * b_hb.x + b_hb.w THEN -1 ELSE 1
        sign_y == IF 2 * a_hb.y + a_hb.h <= 2 * b_hb.y + b_hb.h THEN -1 ELSE 1
    IN  IF ~collides THEN None
        ELSE IF overlap_x <= 0 \/ overlap_y <= 0 THEN None
        ELSE IF overlap_x <= overlap_y
        THEN [tag |-> "Some", axis |-> "X",
              push |-> sign_x * (Div(overlap_x, 2) + COLLISION_EPSILON)]
        ELSE [tag |-> "Some", axis |-> "Y",
              push |-> sign_y * (Div(overlap_y, 2) + COLLISION_EPSILON)]

PushPos(pos, axis, amount) ==
    IF axis = "X" THEN [pos EXCEPT !.x = @ + amount] ELSE [pos EXCEPT !.y = @ + amount]

RECURSIVE apply_pairs(_, _, _, _, _, _)
\* one pass over the pairs from pair k on; returns [ents, any, collide_cache]
apply_pairs(ents, hitboxes, pairs, k, any, collide_cache) ==
    IF k > Len(pairs)
    THEN [ents |-> ents, any |-> any, collide_cache |-> collide_cache]
    ELSE LET i == pairs[k][1]
             j == pairs[k][2]
             Push(c, p) ==
                 IF ~IsSome(p)
                 THEN apply_pairs(ents, hitboxes, pairs, k + 1, any, c.collide_cache)
                 ELSE apply_pairs(
                          [ents EXCEPT ![i].pos = PushPos(@, p.axis, p.push),
                                       ![j].pos = PushPos(@, p.axis, -p.push)],
                          hitboxes, pairs, k + 1, TRUE, c.collide_cache)
             Decide(c) == Push(c, pair_push(c.value, hitboxes, i, j))
         IN  Decide(can_collide(collide_cache, ents[i].def, ents[j].def))

\* the pairs of one pass pushed apart, from the hitboxes taken at the start
\* of the pass, main.rs:750-814
separate_pairs(ents, hitboxes, collide_cache) ==
    apply_pairs(ents, hitboxes, pass_pairs(hitboxes, 1), 1, FALSE, collide_cache)

\* Entity::clamp_to_map, entity.rs:197-202
clamp_to_map(entity) ==
    [entity EXCEPT !.pos = clamp_hitbox_to_rect(db.entities[entity.def].hitbox, @,
                                                get_border_hitbox)]

\* one pass, main.rs:734-823: returns [ents, any, collide_cache]
overlap_pass(ents, collide_cache) ==
    LET Clamped(r) ==
            IF r.any
            THEN [ents |-> [k \in 1..Len(ents) |-> clamp_to_map(r.ents[k])],
                  any |-> TRUE, collide_cache |-> r.collide_cache]
            ELSE r
    IN  Clamped(separate_pairs(ents, [k \in 1..Len(ents) |->
                                         world_hitbox(ents[k].def, ents[k].pos)],
                               collide_cache))

\* the loop giving up after its first pass
overlap_passes_once(ents, n, collide_cache) ==
    IF n = 0 THEN ents ELSE overlap_pass(ents, collide_cache).ents

RECURSIVE overlap_passes(_, _, _)
overlap_passes(ents, n, collide_cache) ==
    IF n = 0 THEN ents
    ELSE LET Again(r) == IF r.any THEN overlap_passes(r.ents, n - 1, r.collide_cache)
                         ELSE r.ents
         IN  Again(overlap_pass(ents, collide_cache))

\* main.rs:723-824; collide_cache starts empty in every call (main.rs:732)
resolve_entity_overlaps(ents) ==
    IF Len(ents) < 2 THEN ents
    ELSE overlap_passes(ents, OVERLAP_PASSES, [pair \in {} |-> FALSE])

----------------------------------------------------------------------------
(* Inputs of the exploration *)

\* get_frame_time(): 1/60 s or 0.3 s
DtSet == {100, 1800}
\* where the player's own update may have put the player
PlayerPoints == {Vec2(19000, 11000)}
PLAYER_HP == 100
PlayerHitbox == Rect(-3250, -8000, 6500, 8000)
\* the actors spawned before the loop (main.rs:257-285), in spawn order
InitialSpawns == << <<"dummy", Vec2(10000, 24000)>>,
                    <<"chopbot", Vec2(8000, 10000)>> >>
\* template id and position of a later Spawn call; "ghost" is no template
SpawnInputs == {<<"chopbot", Vec2(16000, 12000)>>,
                <<"virat", Vec2(18000, 10000)>>,
                <<"virabird", Vec2(17000, 9000)>>,
                <<"ghost", Vec2(8000, 10000)>>}
\* gen_range of wander and the outcome of the virabird routine
WanderDirs == {Vec2(1000, 0), Vec2(0, -1000)}

RECURSIVE tree_actions(_)
\* the action names of a tree
tree_actions(node) ==
    CASE node.type = "Action" -> {node.name}
      [] node.type = "Condition" -> {}
      [] OTHER -> UNION {tree_actions(node.children[k]) : k \in 1..Len(node.children)}

\* the random draws an Update of the actor can consume
RndInputs(entity) ==
    LET tree == db.entities[entity.def].behavior_tree
        names == IF IsSome(tree) THEN tree_actions(tree.v) ELSE {}
    IN  {[dir |-> d, vb_vel |-> v, vb_timer |-> t] :
            d \in (IF "wander" \in names THEN WanderDirs ELSE {Vec2(1000, 0)}),
            v \in (IF "virabird_ai" \in names THEN {ZERO, Vec2(600, 0)} ELSE {ZERO}),
            t \in (IF "virabird_ai" \in names THEN {0, 420} ELSE {0})}

----------------------------------------------------------------------------
(* The frame driver, main.rs:257-285 and 329-485 *)

EmptyCache == [k \in {} |-> None]

NoContext ==
    [player |-> None, target |-> None, entities |-> <<>>,
     target_cache |-> EmptyCache, view_height |-> CAMERA_FOV,
     damage_events |-> <<>>]

\* main.rs:390-401
snapshot_of(ents) ==
    [k \in 1..Len(ents) |->
        EntityTarget(ents[k].uid, ents[k].def, db.entities[ents[k].def].kind, ents[k].pos,
                     world_hitbox(ents[k].def, ents[k].pos), ents[k].hp > 0)]

\* the context that carries the player whenever the player has health
new_context_by_health(ents, pl, dead, cache) ==
    [player |-> IF pl.hp <= 0 THEN None
                ELSE PlayerTarget(pl.pos, Rect(pl.pos.x + PlayerHitbox.x,
                                               pl.pos.y + PlayerHitbox.y,
                                               PlayerHitbox.w, PlayerHitbox.h)),
     target |-> None,
     entities |-> snapshot_of(ents),
     target_cache |-> cache,
     view_height |-> CAMERA_FOV,
     damage_events |-> <<>>]

\* Player::heal, called by heal_player_small (interact.rs:57-59); its body is
\* not part of the sources at hand: the health rises by the amount, up to
\* the health a player is built with
heal(hp, amount) == IF amount <= 0 THEN hp ELSE Min(hp + amount, PLAYER_HP)

\* main.rs:404-418
new_context(ents, pl, dead, cache) ==
    [player |-> IF dead \/ pl.hp <= 0 THEN None
                ELSE PlayerTarget(pl.pos, Rect(pl.pos.x + PlayerHitbox.x,
                                               pl.pos.y + PlayerHitbox.y,
                                               PlayerHitbox.w, PlayerHitbox.h)),
     target |-> None,
     entities |-> snapshot_of(ents),
     target_cache |-> cache,
     view_height |-> CAMERA_FOV,
     damage_events |-> <<>>]

\* the state before the loop, main.rs:257-326
DriverInit ==
    /\ db = [entities |-> Entities, traits |-> Traits]
    /\ entities = [k \in 1..Len(InitialSpawns) |->
                       spawn(InitialSpawns[k][1], InitialSpawns[k][2], k).v]
    /\ player = [pos |-> Vec2(19000, 11000), hp |-> PLAYER_HP]
    /\ player_dead = FALSE
    /\ damage_events = <<>>
    /\ entity_target_cache = EmptyCache
    /\ ctx = NoContext
    /\ ent_idx = 1
    /\ dt = 0
    /\ pc = "loop"
    /\ frame = 0
    /\ ENTITY_ID_COUNTER = Len(InitialSpawns) + 1
    /\ hit_clock = EmptyCache

Init == DriverInit /\ probe = None

\* Entity::spawn and the push onto the live set, main.rs:263-264; the id
\* counter advances only when an instance is built (entity.rs:843, 873).
\* The driver of main.rs spawns before the loop (InitialSpawns); the
\* operation is open to the driver between any two frames as well.
Spawn ==
    /\ pc = "loop"
    /\ frame < MaxFrames
    /\ ENTITY_ID_COUNTER <= Len(InitialSpawns) + MaxSpawns
    /\ \E in \in SpawnInputs :
          \E r \in {spawn(in[1], in[2], next_entity_id(ENTITY_ID_COUNTER).id)} :
              IF IsSome(r)
              THEN /\ entities' = Append(entities, r.v)
                   /\ ENTITY_ID_COUNTER' = next_entity_id(ENTITY_ID_COUNTER).counter
              ELSE UNCHANGED <<entities, ENTITY_ID_COUNTER>>
    /\ UNCHANGED <<db, player, player_dead, damage_events, entity_target_cache, ctx,
                   ent_idx, dt, pc, frame, probe, hit_clock>>

\* top of the loop body up to the construction of the context, main.rs:330-420:
\* the player's own update unless dead (343-345), the interaction a click on
\* a structure runs, dead or not (378-388, interact.rs:57-63), the context;
\* clicks are the interactions the frame may see
frame_top(clicks) ==
    /\ pc = "loop"
    /\ frame < MaxFrames
    /\ \E d \in DtSet, pp \in PlayerPoints, click \in clicks :
          /\ dt' = d
          /\ player' = [pos |-> IF player_dead THEN player.pos ELSE pp,
                        hp |-> CASE click = "heal_player_small" -> heal(player.hp, 25)
                                 [] click = "damage_player_small" ->
                                        apply_damage(player.hp, 25)
                                 [] OTHER -> player.hp]
          /\ ctx' = new_context(entities, player', player_dead, entity_target_cache)
    /\ damage_events' = <<>>
    /\ entity_target_cache' = EmptyCache
    /\ ent_idx' = 1
    /\ pc' = "update"
    /\ frame' = frame + 1
    /\ UNCHANGED <<db, entities, player_dead, ENTITY_ID_COUNTER, probe, hit_clock>>

\* a frame in which no structure is clicked
BeginFrame == frame_top({"none"})

\* the history of an actor's events after one Update of step `step`: the time
\* since the last event (saturating at MaxClock) and the events so far
tick_clock(clock, uid, step, emitted) ==
    IF emitted
    THEN CacheInsert(clock, uid,
                     [since |-> 0,
                      count |-> IF uid \in DOMAIN clock
                                THEN Min(clock[uid].count + 1, MaxCount) ELSE 1])
    ELSE IF uid \in DOMAIN clock
    THEN CacheInsert(clock, uid, [clock[uid] EXCEPT !.since = Min(@ + step, MaxClock)])
    ELSE clock

\* one turn of the update loop, main.rs:421-425
UpdateEntity ==
    /\ pc = "update"
    /\ ent_idx <= Len(entities)
    /\ \E rnd \in RndInputs(entities[ent_idx]) :
          \E r \in {update(entities[ent_idx], ctx, dt, rnd)} :
              /\ entities' = [entities EXCEPT ![ent_idx] = clamp_to_map(r.entity)]
              /\ ctx' = r.ctx
              /\ hit_clock' = tick_clock(hit_clock, entities[ent_idx].uid, dt,
                                         Len(r.ctx.damage_events) > Len(ctx.damage_events))
    /\ ent_idx' = ent_idx + 1
    /\ UNCHANGED <<db, player, player_dead, damage_events, entity_target_cache, dt, pc,
                   frame, ENTITY_ID_COUNTER, probe>>

\* after the last Update: the separator, then the events and the cache move
\* back to the driver, main.rs:426-428
FinishUpdates ==
    /\ pc = "update"
    /\ ent_idx > Len(entities)
    /\ entities' = resolve_entity_overlaps(entities)
    /\ damage_events' = damage_events \o ctx.damage_events
    /\ entity_target_cache' = ctx.target_cache
    /\ ctx' = [ctx EXCEPT !.damage_events = <<>>, !.target_cache = EmptyCache]
    /\ pc' = "apply"
    /\ UNCHANGED <<db, player, player_dead, ent_idx, dt, frame, ENTITY_ID_COUNTER, probe,
                   hit_clock>>

RECURSIVE apply_events(_, _, _, _)
\* the loop over the damage events from event k on, main.rs:462-481;
\* returns [ents, hp] with hp the player's
apply_events(ents, hp, events, k) ==
    IF k > Len(events) THEN [ents |-> ents, hp |-> hp]
    ELSE LET event == events[k]
         IN  CASE event.target.tag = "Player" ->
                     apply_events(ents, apply_damage(hp, event.amount), events, k + 1)
               [] event.target.tag = "Entity" ->
                     apply_events(
                         [i \in 1..Len(ents) |->
                             IF ents[i].uid = event.target.id
                             THEN [ents[i] EXCEPT !.hp = apply_damage(@, event.amount)]
                             ELSE ents[i]],
                         hp, events, k + 1)
               [] OTHER -> apply_events(ents, hp, events, k + 1)

\* a retain that lets every actor stay
retain_all(ents) == ents

\* entities.retain(|entity| entity.instance.hp > 0.0), main.rs:482
retain_live(ents) == SelectSeq(ents, LAMBDA e : e.hp > 0)

\* the events are applied, dead actors leave the live set and the player's
\* death is latched, main.rs:457-485; the context ends with the iteration
ApplyDamage ==
    /\ pc = "apply"
    /\ \E r \in {apply_events(entities, player.hp, damage_events, 1)} :
           /\ entities' = retain_live(r.ents)
           /\ player' = [player EXCEPT !.hp = r.hp]
           /\ player_dead' = (player_dead \/ r.hp <= 0)
    /\ ctx' = NoContext
    /\ pc' = "loop"
    /\ UNCHANGED <<db, damage_events, entity_target_cache, ent_idx, dt, frame,
                   ENTITY_ID_COUNTER, probe, hit_clock>>

Next == Spawn \/ BeginFrame \/ UpdateEntity \/ FinishUpdates \/ ApplyDamage

Spec == Init /\ [][Next]_vars

----------------------------------------------------------------------------
(* The frame driver where structures are clicked: the frames begin with a   *)
(* virat spawned beside the player and the player's health as three         *)
(* damage_player_small interactions leave it.                               *)

InitInteract ==
    /\ db = [entities |-> Entities, traits |-> Traits]
    /\ entities = [k \in 1..(Len(InitialSpawns) + 1) |->
                       IF k <= Len(InitialSpawns)
                       THEN spawn(InitialSpawns[k][1], InitialSpawns[k][2], k).v
                       ELSE spawn("virat", Vec2(18000, 10000), k).v]
    /\ player = [pos |-> Vec2(19000, 11000), hp |-> PLAYER_HP - 3 * 25]
    /\ player_dead = FALSE
    /\ damage_events = <<>>
    /\ entity_target_cache = EmptyCache
    /\ ctx = NoContext
    /\ ent_idx = 1
    /\ dt = 0
    /\ pc = "loop"
    /\ frame = 0
    /\ ENTITY_ID_COUNTER = Len(InitialSpawns) + 2
    /\ hit_clock = EmptyCache
    /\ probe = None

\* a frame in which a structure may be clicked
BeginFrameClicked == frame_top({"none", "heal_player_small", "damage_player_small"})

NextInteract == BeginFrameClicked \/ UpdateEntity \/ FinishUpdates \/ ApplyDamage

SpecInteract == InitInteract /\ [][NextInteract]_vars

----------------------------------------------------------------------------
(* Evaluation of a behaviour tree on its own: the tree and the actor are    *)
(* drawn in the initial state, eval_behavior and select_actions are applied *)

\* the nodes a probed tree is built from
TreeChildren == {
    ActionNode("seek", FALSE, [speed |-> 600], EmptyParams),
    ActionNode("dash_at_target", TRUE, [dash_speed |-> 3000], [cooldown |-> 3000]),
    ActionNode("flee", TRUE, EmptyParams, EmptyParams),
    ConditionNode("target_in_range", None),
    ConditionNode("target_in_range", Some(20)),
    ConditionNode("on_fire", None),
    SequenceNode(<< ActionNode("dash_at_target", TRUE, [dash_speed |-> 3000],
                               [cooldown |-> 3000]),
                    ConditionNode("on_fire", None),
                    ActionNode("seek", FALSE, [speed |-> 600], EmptyParams) >>),
    SelectorNode(<< ConditionNode("target_in_range", None),
                    ActionNode("flee", TRUE, EmptyParams, EmptyParams) >>),
    SequenceNode(<<>>) }

\* a Sequence or a Selector over at most MaxChildren of these nodes
ProbeTrees ==
    LET lists == UNION {[1..n -> TreeChildren] : n \in 0..MaxChildren}
    IN  {SequenceNode(cs) : cs \in lists} \cup {SelectorNode(cs) : cs \in lists}

\* the evaluating actor: without target, or with a target 6 px away (the
\* range 0.02 x view height) or just beyond that
ProbeEntities ==
    LET e == spawn("chopbot", Vec2(8000, 10000), 1).v
    IN  {e} \cup {[e EXCEPT !.current_target =
                      EntityTarget(2, 1, "Enemy", p, world_hitbox(1, p), TRUE)] :
                    p \in {Vec2(14000, 10000), Vec2(14001, 10000)}}

InitTree ==
    /\ DriverInit
    /\ probe \in {[tree |-> t, entity |-> e, stage |-> "input",
                   result |-> [action |-> None, multiple |-> <<>>, ok |-> FALSE],
                   selected |-> <<>>] : t \in ProbeTrees, e \in ProbeEntities}

\* a call of eval_behavior, entity.rs:985-1043
EvaluateTree ==
    /\ probe.stage = "input"
    /\ probe' = [probe EXCEPT !.stage = "evaluated",
                              !.result = eval_behavior(probe.tree, probe.entity, CAMERA_FOV)]
    /\ UNCHANGED <<db, entities, player, player_dead, damage_events, entity_target_cache,
                   ctx, ent_idx, dt, pc, frame, ENTITY_ID_COUNTER, hit_clock>>

\* a call of select_actions, entity.rs:1045-1068
SelectTree ==
    /\ probe.stage = "evaluated"
    /\ probe' = [probe EXCEPT !.stage = "selected",
                              !.selected = select_actions(probe.tree, probe.entity,
                                                          CAMERA_FOV)]
    /\ UNCHANGED <<db, entities, player, player_dead, damage_events, entity_target_cache,
                   ctx, ent_idx, dt, pc, frame, ENTITY_ID_COUNTER, hit_clock>>

\* the reconciliation of the actor's behaviour list with the selection,
\* entity.rs:358-387
ReconcileTree ==
    /\ probe.stage = "selected"
    /\ probe' = [probe EXCEPT !.stage = "reconciled",
                  !.entity.behaviors = sync_behaviors(@, desired_from(probe.selected),
                                                      1, <<>>)]
    /\ UNCHANGED <<db, entities, player, player_dead, damage_events, entity_target_cache,
                   ctx, ent_idx, dt, pc, frame, ENTITY_ID_COUNTER, hit_clock>>

NextTree == EvaluateTree \/ SelectTree \/ ReconcileTree

SpecTree == InitTree /\ [][NextTree]_vars

----------------------------------------------------------------------------
(* Single calls of the functions of the core: the arguments are drawn in   *)
(* the initial state and one action per function applies it.               *)

\* the arguments of a resolve_target call.  The asking actor (uid 1) is of any
\* template and stands with an enemy and a friend, with a friend alone, or
\* among six actors of which two enemies and two misc actors are equally
\* far; the context has no player or one (entity.rs:614), a forced target
\* that is none, the player or an actor (entity.rs:615), and a cache
\* (entity.rs:617) that is empty or holds for the masks of the templates a
\* remembered miss or a remembered actor: the friend, an enemy remembered at
\* the place it had in an earlier frame, or an actor that has since died
ResolveInputs ==
    LET friend == EntityTarget(3, 2, "Friend", Vec2(8000, 16000),
                               world_hitbox(2, Vec2(8000, 16000)), TRUE)
        moved == EntityTarget(4, 1, "Enemy", Vec2(20000, 10000),
                              world_hitbox(1, Vec2(20000, 10000)), TRUE)
        gone == EntityTarget(9, 4, "Misc", Vec2(8000, 12000),
                             world_hitbox(4, Vec2(8000, 12000)), TRUE)
        keys == {<<1, 2>>, <<1, 3>>, <<1, 8>>}
    IN  {[fn |-> "resolve_target", stage |-> "input", entity |-> e,
          ctx |-> [player |-> p, target |-> t,
                   entities |-> snapshot_of(<<e>> \o others),
                   target_cache |-> tc, view_height |-> CAMERA_FOV,
                   damage_events |-> <<>>],
          result |-> None, target_cache |-> tc] :
            e \in {spawn(db.entities[d].id, Vec2(8000, 10000), 1).v :
                      d \in 1..Len(db.entities)},
            others \in {<< spawn("virat", Vec2(12000, 10000), 2).v,
                           spawn("chopbot", Vec2(8000, 16000), 3).v >>,
                        << spawn("chopbot", Vec2(8000, 16000), 3).v >>,
                        << spawn("virat", Vec2(14000, 10000), 2).v,
                           spawn("chopbot", Vec2(8000, 12000), 3).v,
                           spawn("virat", Vec2(12000, 10000), 4).v,
                           spawn("dummy", Vec2(8000, 15000), 5).v,
                           spawn("virat", Vec2(8000, 14000), 6).v,
                           spawn("crate", Vec2(8000, 5000), 7).v >>},
            p \in {None, PlayerTarget(Vec2(19000, 11000), Rect(15750, 3000, 6500, 8000))},
            t \in {None, friend,
                   PlayerTarget(Vec2(30000, 30000), Rect(26750, 22000, 6500, 8000))},
            tc \in {EmptyCache} \cup {[k \in keys |-> v] : v \in {None, friend, moved, gone}}}

\* the arguments of a resolve_collisions_axis call: an actor hitbox at one of
\* two positions, an axis velocity of either sign or zero, and up to
\* MaxColliders colliders that cut into the hitbox, lie an epsilon beside it,
\* share an edge with it or lie apart
AxisInputs ==
    LET pool == {Rect(6000, 6000, 4000, 4000), Rect(8001, 4000, 4000, 4000),
                 Rect(12000, 4000, 4000, 4000), Rect(0, 9000, 4000, 4000)}
    IN  {[fn |-> "resolve_collisions_axis", stage |-> "input",
          hitbox |-> Rect(-4000, -6000, 4000, 4000), pos |-> p, vel_axis |-> v,
          colliders |-> cs, axis |-> a, result |-> [pos |-> p, vel |-> v]] :
            p \in {Vec2(8000, 10000), Vec2(20000, 10000)},
            v \in {-600, 0, 600}, a \in {"X", "Y"},
            cs \in UNION {[1..n -> pool] : n \in 0..MaxColliders}}

\* the actors of a separation pass: two actors (uids 1 and 2) of the
\* templates dummy, virabird (exempt from actor collision) and crate, the
\* first at the map corner or inside the map, the second beside it, on it or
\* apart from it; both hitboxes lie inside the map border
OverlapInputs ==
    LET inside(e) == clamp_to_map(e) = e
        firsts == {spawn(id, p, 1).v :
                      id \in {"dummy", "virabird", "crate"},
                      p \in {Vec2(0, 0), Vec2(10000, 12000)}}
        seconds(a) == {spawn(id, Vec2(a.pos.x + d[1], a.pos.y + d[2]), 2).v :
                          id \in {"dummy", "virabird", "crate"},
                          d \in {<<6000, 0>>, <<0, 3000>>, <<-2000, -2000>>,
                                 <<3000, 5000>>, <<0, 0>>, <<20000, 0>>}}
    IN  {[fn |-> "overlap_pass", stage |-> "input", ents |-> <<a, b>>,
          result |-> <<a, b>>, any |-> FALSE] :
            a \in {e \in firsts : inside(e)},
            b \in {e \in UNION {seconds(f) : f \in firsts} : inside(e)}}

\* the arguments of a movement_wander call: an actor at rest or moving, the
\* behaviour as created (timer 0, no direction) or as an earlier call left it,
\* the frame time, the interval parameter absent (1.5 s), 0 or 2 s, and the
\* direction gen_range yields
WanderInputs ==
    LET e == spawn("dummy", Vec2(10000, 24000), 1).v
    IN  {[fn |-> "movement_wander", stage |-> "input",
          entity |-> [e EXCEPT !.vel = v],
          behavior |-> BehaviorRuntime("wander", ps, t, d, 0),
          step |-> st, rnd |-> [dir |-> rd, vb_vel |-> ZERO, vb_timer |-> 0],
          result |-> [vel |-> v, behavior |-> BehaviorRuntime("wander", ps, t, d, 0)]] :
            v \in {ZERO, Vec2(0, 600)},
            ps \in {EmptyParams, [interval |-> 0], [interval |-> 12000]},
            t \in {0, 50, 100, 600, 1800, 9000, 12000},
            d \in {ZERO} \cup WanderDirs,
            st \in DtSet, rd \in WanderDirs}

\* the behaviour lists of an actor probed over consecutive Updates, as
\* reconciliation leaves them while the same actions stay selected: seek
\* with a dash (0.07 s, cooldown 0.5 s) faster than the actor, a dash that
\* outlasts its cooldown, a dash with no parameters, a seek faster than the
\* actor, and idle
MoveInputs ==
    LET e == spawn("virat", Vec2(10000, 12000), 1).v
        lists == {
            << BehaviorRuntime("seek", [speed |-> 600], 0, ZERO, 0),
               BehaviorRuntime("dash_at_target",
                               [dash_speed |-> 3000, dash_duration |-> 420,
                                dash_cooldown |-> 3000], 0, ZERO, 0) >>,
            << BehaviorRuntime("dash_at_target",
                               [dash_speed |-> 300, dash_duration |-> 3600,
                                dash_cooldown |-> 1800], 0, ZERO, 0) >>,
            << BehaviorRuntime("seek", EmptyParams, 0, ZERO, 0),
               BehaviorRuntime("dash_at_target", EmptyParams, 0, ZERO, 0) >>,
            << BehaviorRuntime("seek", [speed |-> 900], 0, ZERO, 0) >>,
            << BehaviorRuntime("idle", EmptyParams, 0, ZERO, 0) >> }
    IN  {[fn |-> "move_behaviors", stage |-> "input",
          entity |-> [e EXCEPT !.behaviors = l],
          before |-> [e EXCEPT !.behaviors = l],
          raw |-> [e EXCEPT !.behaviors = l],
          step |-> 0, calls |-> 0, since |-> -1, gap |-> -1] : l \in lists}

\* the targets an Update of the probed actor may have resolved: none, the
\* player 0.01 away, or the player far off to the right or below
MoveTargets(entity) ==
    {None} \cup {PlayerTarget(p, Rect(p.x + PlayerHitbox.x, p.y + PlayerHitbox.y,
                                         PlayerHitbox.w, PlayerHitbox.h)) :
                    p \in {Vec2(entity.pos.x + 10, entity.pos.y),
                           Vec2(19000, 12000), Vec2(10000, 20000)}}

InitCalls ==
    /\ DriverInit
    /\ probe \in ResolveInputs \cup AxisInputs \cup OverlapInputs \cup WanderInputs
                 \cup MoveInputs
                 \cup {[fn |-> "spawn", stage |-> "input", id |-> id, pos |-> p,
                         result |-> None] :
                           id \in {db.entities[d].id : d \in 1..Len(db.entities)}
                                     \cup {"ghost", ""},
                           p \in {Vec2(16000, 12000), Vec2(8000, 10000)}}
                 \cup {[fn |-> "apply_damage", stage |-> "input",
                         entity |-> spawn(id, Vec2(8000, 10000), 1).v,
                         amounts |-> as, before |-> 0, amount |-> 0] :
                           id \in {"virat", "chopbot", "dummy"},
                           as \in UNION {[1..n -> {-1, 0, 1, 2}] : n \in 1..MaxHits}}
                 \cup {[fn |-> "move_and_collide", stage |-> "input",
                         entity |-> [spawn(id, p, 1).v
                                        EXCEPT !.vel = v, !.current_target = t],
                         ctx |-> new_context(
                                     << spawn(id, p, 1).v,
                                        spawn("virat", Vec2(13000, 12000), 2).v,
                                        spawn("chopbot", Vec2(10000, 15000), 3).v,
                                        spawn("dummy", Vec2(10000, 24000), 4).v,
                                        spawn("crate", Vec2(20000, 2000), 5).v >>,
                                     [pos |-> Vec2(12000, 5000), hp |-> PLAYER_HP],
                                     dead, EmptyCache),
                         step |-> st,
                         result |-> spawn(id, p, 1).v] :
                           id \in {"virat", "chopbot", "virabird", "wisp", "hermit"},
                           p \in {Vec2(10000, 12000), Vec2(25000, 12000)},
                           v \in {ZERO, Vec2(600, 0), Vec2(0, 600), Vec2(-300, -300)},
                           t \in {None,
                                  PlayerTarget(Vec2(12000, 5000),
                                               Rect(8750, -3000, 6500, 8000)),
                                  EntityTarget(2, 1, "Enemy", Vec2(13000, 12000),
                                               world_hitbox(1, Vec2(13000, 12000)), TRUE)},
                           dead \in BOOLEAN, st \in DtSet}
                 \cup {[fn |-> "resolve_entity_overlaps", stage |-> "input",
                         ents |-> [k \in 1..Len(pick) |->
                                      spawn(pick[k][1], pick[k][2], k).v],
                         before |-> <<>>,
                         result |-> [k \in 1..Len(pick) |->
                                        spawn(pick[k][1], pick[k][2], k).v],
                         any |-> FALSE, passes |-> 0,
                         collide_cache |-> [pair \in {} |-> FALSE]] :
                           pick \in UNION {{s \in [1..n -> {
                                       <<"crate", Vec2(0, 0)>>,
                                       <<"crate", Vec2(6000, 0)>>,
                                       <<"crate", Vec2(22000, 22000)>>,
                                       <<"crate", Vec2(22000, 20000)>>,
                                       <<"dummy", Vec2(10000, 12000)>>,
                                       <<"dummy", Vec2(12000, 13000)>>,
                                       <<"virabird", Vec2(10000, 12000)>>,
                                       <<"hermit", Vec2(9000, 12000)>>}] :
                                     \A i, j \in 1..n : i # j => s[i] # s[j]} :
                                   n \in 0..MaxActors}}

\* a call of EntityContext::resolve_target, entity.rs:623-710
CallResolveTarget ==
    /\ probe.fn = "resolve_target" /\ probe.stage = "input"
    /\ \E r \in {resolve_target(probe.ctx, probe.entity)} :
          probe' = [probe EXCEPT !.stage = "done", !.result = r.result,
                                 !.target_cache = r.target_cache]
    /\ UNCHANGED <<db, entities, player, player_dead, damage_events, entity_target_cache,
                   ctx, ent_idx, dt, pc, frame, ENTITY_ID_COUNTER, hit_clock>>

\* a call of resolve_collisions_axis, helpers.rs:103-181
CallResolveAxis ==
    /\ probe.fn = "resolve_collisions_axis" /\ probe.stage = "input"
    /\ probe' = [probe EXCEPT !.stage = "done",
                  !.result = resolve_collisions_axis(probe.hitbox, probe.pos,
                                 probe.vel_axis, probe.colliders, probe.axis)]
    /\ UNCHANGED <<db, entities, player, player_dead, damage_events, entity_target_cache,
                   ctx, ent_idx, dt, pc, frame, ENTITY_ID_COUNTER, hit_clock>>

\* one pass of resolve_entity_overlaps, main.rs:734-823
CallOverlapPass ==
    /\ probe.fn = "overlap_pass" /\ probe.stage = "input"
    /\ \E r \in {overlap_pass(probe.ents, [pair \in {} |-> FALSE])} :
          probe' = [probe EXCEPT !.stage = "done", !.result = r.ents, !.any = r.any]
    /\ UNCHANGED <<db, entities, player, player_dead, damage_events, entity_target_cache,
                   ctx, ent_idx, dt, pc, frame, ENTITY_ID_COUNTER, hit_clock>>

\* a call of movement_wander, trait.rs:39-67
CallWander ==
    /\ probe.fn = "movement_wander" /\ probe.stage = "input"
    /\ probe' = [probe EXCEPT !.stage = "done",
                  !.result = movement_wander(probe.entity, probe.behavior, probe.step,
                                             probe.behavior.params, probe.rnd)]
    /\ UNCHANGED <<db, entities, player, player_dead, damage_events, entity_target_cache,
                   ctx, ent_idx, dt, pc, frame, ENTITY_ID_COUNTER, hit_clock>>

\* a call of Entity::spawn, entity.rs:837-888, and what main.rs:257-285
\* does with an instance
CallSpawn ==
    /\ probe.fn = "spawn" /\ probe.stage = "input"
    /\ \E r \in {spawn(probe.id, probe.pos, next_entity_id(ENTITY_ID_COUNTER).id)} :
          /\ probe' = [probe EXCEPT !.stage = "done", !.result = r]
          /\ IF IsSome(r)
             THEN /\ entities' = Append(entities, r.v)
                  /\ ENTITY_ID_COUNTER' = next_entity_id(ENTITY_ID_COUNTER).counter
             ELSE UNCHANGED <<entities, ENTITY_ID_COUNTER>>
    /\ UNCHANGED <<db, player, player_dead, damage_events, entity_target_cache,
                   ctx, ent_idx, dt, pc, frame, hit_clock>>

\* the next apply_damage call on a spawned actor, entity.rs:891-898
CallApplyDamage ==
    /\ probe.fn = "apply_damage" /\ probe.amounts # <<>>
    /\ probe' = [probe EXCEPT !.stage = "done",
                  !.entity.hp = apply_damage(@, Head(probe.amounts)),
                  !.before = probe.entity.hp,
                  !.amount = Head(probe.amounts),
                  !.amounts = Tail(@)]
    /\ UNCHANGED <<db, entities, player, player_dead, damage_events, entity_target_cache,
                   ctx, ent_idx, dt, pc, frame, ENTITY_ID_COUNTER, hit_clock>>

\* the move of Update against terrain and actors, entity.rs:415-478
CallMoveAndCollide ==
    /\ probe.fn = "move_and_collide" /\ probe.stage = "input"
    /\ probe' = [probe EXCEPT !.stage = "done",
                  !.result = move_and_collide(probe.entity, probe.ctx, probe.step)]
    /\ UNCHANGED <<db, entities, player, player_dead, damage_events, entity_target_cache,
                   ctx, ent_idx, dt, pc, frame, ENTITY_ID_COUNTER, hit_clock>>

\* a call of resolve_entity_overlaps on a live set of up to MaxActors actors
\* standing inside the map, main.rs:723-824, one pass of the loop per step:
\* the call returns when the set has fewer than two actors, when the passes
\* are used up or when the last pass made no correction
CallResolveOverlaps ==
    /\ probe.fn = "resolve_entity_overlaps" /\ probe.stage \in {"input", "pass"}
    /\ IF \/ Len(probe.ents) < 2
          \/ probe.passes = OVERLAP_PASSES
          \/ probe.passes > 0 /\ ~probe.any
       THEN probe' = [probe EXCEPT !.stage = "done"]
       ELSE \E r \in {overlap_pass(probe.result, probe.collide_cache)} :
               probe' = [probe EXCEPT !.stage = "pass", !.before = probe.result,
                                      !.result = r.ents, !.any = r.any,
                                      !.collide_cache = r.collide_cache,
                                      !.passes = @ + 1]
    /\ UNCHANGED <<db, entities, player, player_dead, damage_events, entity_target_cache,
                   ctx, ent_idx, dt, pc, frame, ENTITY_ID_COUNTER, hit_clock>>

\* the movement part of one more Update of the probed actor, entity.rs:346,
\* 389-413: the velocity reset, the routines in list order, the speed clamp.
\* The probe keeps the actor as the routines left it (raw) and, as history,
\* the simulated time since the first dash entry last started a dash (since)
\* and the time between its last two starts (gap), -1 when there is none
CallMoveBehaviors ==
    /\ probe.fn = "move_behaviors" /\ probe.calls < MaxCalls
    /\ \E t \in MoveTargets(probe.entity), st \in DtSet :
       \E e \in {[probe.entity EXCEPT !.vel = ZERO, !.current_target = t]} :
       \E rnd \in {[dir |-> Vec2(1000, 0), vb_vel |-> ZERO, vb_timer |-> 0]} :
       \E r \in {move_behaviors(e, st, rnd)} :
       \E started \in {\E k \in 1..Len(e.behaviors) :
                          /\ e.behaviors[k].name = "dash_at_target"
                          /\ \A j \in 1..(k - 1) : e.behaviors[j].name # "dash_at_target"
                          /\ r.behaviors[k].timer > e.behaviors[k].timer} :
          probe' = [probe EXCEPT
                      !.stage = "done", !.before = e,
                      !.raw = run_behaviors(e, e.behaviors, 1, st, rnd),
                      !.entity = r, !.step = st, !.calls = @ + 1,
                      !.since = IF started THEN 0
                                ELSE IF @ < 0 THEN @ ELSE @ + st,
                      !.gap = IF started /\ probe.since >= 0 THEN probe.since + st
                              ELSE @]
    /\ UNCHANGED <<db, entities, player, player_dead, damage_events, entity_target_cache,
                   ctx, ent_idx, dt, pc, frame, ENTITY_ID_COUNTER, hit_clock>>

NextCalls ==
    \/ CallMoveBehaviors
    \/ CallResolveTarget \/ CallResolveAxis \/ CallOverlapPass \/ CallWander
    \/ CallSpawn \/ CallApplyDamage \/ CallMoveAndCollide \/ CallResolveOverlaps

SpecCalls == InitCalls /\ [][NextCalls]_vars

----------------------------------------------------------------------------
(* Properties of target resolution *)

\* the target cache where the frame keeps it: inside the context during the
\* update phase (main.rs:412), in the driver otherwise (main.rs:428)
target_cache_now == IF pc = "update" THEN ctx.target_cache ELSE entity_target_cache

\* the cache key of a live actor, entity.rs:661-669
cache_key(e) == <<e.uid, target_mask(Entities[e.def].flags)>>

\* a snapshot entry the full scan of actor e would accept, entity.rs:689-699
eligible(e, candidate) ==
    /\ candidate.id # e.uid
    /\ candidate.alive
    /\ is_kind_targetable(Entities[e.def].flags, candidate.kind)

\* C1: once the cache records "no target" under an actor's (uid, mask), the
\* entry stays as it is through every step of the frame loop; every later
\* Update of that actor (no target-player flag) resolves to no target and
\* leaves the cache as it was, i.e. without a scan, and the cache passes
\* unchanged from the driver into the context and back.
C1_NoTargetSticks ==
    [][ /\ \A k \in 1..Len(entities) :
              LET e == entities[k]
                  key == cache_key(e)
              IN  (key \in DOMAIN target_cache_now /\ target_cache_now[key] = None) =>
                    /\ key \in DOMAIN target_cache_now'
                    /\ target_cache_now'[key] = None
                    /\ (/\ pc = "update" /\ ent_idx = k
                        /\ ~has_flag(Entities[e.def].flags, DEF_FLAG_TARGET_PLAYER)) =>
                          /\ entities'[k].current_target = None
                          /\ ctx'.target_cache = ctx.target_cache
        /\ (pc # "update" \/ pc' # "update") => target_cache_now' = target_cache_now
      ]_vars

\* C1 witness: an actor updated in this frame resolved to no target from its
\* cached "no target" although the snapshot holds a candidate its scan accepts
C1_Witness ==
    /\ pc = "update"
    /\ \E k \in 1..Len(entities) :
          /\ k < ent_idx
          /\ cache_key(entities[k]) \in DOMAIN ctx.target_cache
          /\ ctx.target_cache[cache_key(entities[k])] = None
          /\ entities[k].current_target = None
          /\ \E j \in 1..Len(ctx.entities) : eligible(entities[k], ctx.entities[j])

\* the kind bits of a flag word, entity.rs:634-637
kind_bit(kind) ==
    CASE kind = "Enemy" -> DEF_FLAG_TARGET_NEAREST_ENEMY
      [] kind = "Friend" -> DEF_FLAG_TARGET_NEAREST_FRIEND
      [] kind = "Misc" -> DEF_FLAG_TARGET_NEAREST_MISC

has_specific(flags) ==
    \/ has_flag(flags, DEF_FLAG_TARGET_NEAREST_ENEMY)
    \/ has_flag(flags, DEF_FLAG_TARGET_NEAREST_FRIEND)
    \/ has_flag(flags, DEF_FLAG_TARGET_NEAREST_MISC)

\* C2: an actor with at least one specific nearest-target bit never holds an
\* actor target of a kind whose bit is not set, with or without the
\* any-entity bit, whether the target came from a scan or from the cache.
C2_KindBitRequired ==
    \A k \in 1..Len(entities) :
        LET e == entities[k]
            flags == Entities[e.def].flags
        IN  (/\ has_specific(flags)
             /\ ~has_flag(flags, DEF_FLAG_TARGET_PLAYER)
             /\ IsSome(e.current_target)
             /\ e.current_target.tag = "Entity") =>
                has_flag(flags, kind_bit(e.current_target.kind))

\* C2 witness: an actor with the any-entity bit and the enemy bit, updated in
\* this frame, targets an enemy although a live actor of another kind is
\* strictly nearer to where it stood when it resolved
C2_Witness ==
    /\ pc = "update"
    /\ \E k \in 1..Len(entities) :
          LET e == entities[k]
              flags == Entities[e.def].flags
              own == ctx.entities[k]
          IN  /\ k < ent_idx
              /\ has_flag(flags, DEF_FLAG_TARGET_NEAREST_ENTITY)
              /\ has_flag(flags, DEF_FLAG_TARGET_NEAREST_ENEMY)
              /\ IsSome(e.current_target)
              /\ e.current_target.tag = "Entity"
              /\ e.current_target.kind = "Enemy"
              /\ \E j \in 1..Len(ctx.entities) :
                    /\ ctx.entities[j].id # e.uid
                    /\ ctx.entities[j].alive
                    /\ ctx.entities[j].kind # "Enemy"
                    /\ distance_squared(own.pos, ctx.entities[j].pos)
                         < distance_squared(own.pos, e.current_target.pos)

----------------------------------------------------------------------------
(* Properties of contact damage *)

\* the events the Update of this step appended to the frame's list
appended_events ==
    SubSeq(ctx'.damage_events, Len(ctx.damage_events) + 1, Len(ctx'.damage_events))

\* the contact cooldown after the tick at the top of Update, entity.rs:348-350
cooled(e, step) ==
    IF e.contact_cooldown > 0 THEN Max(e.contact_cooldown - step, 0)
    ELSE e.contact_cooldown

\* C3: in every Update of an actor at most one DamageEvent is appended; none
\* while the cooldown, lowered by dt and floored at 0, is still positive; an
\* appended event carries the actor's damage stat and sets the cooldown to
\* 0.3 s, and the Updates since the actor's previous event add up to at
\* least 0.3 s.  An actor that targets the player, has damage > 0 and a
\* cooldown that reached 0, and overlaps the player's hitbox where the Update
\* moved it, appends exactly the event <damage, Player>.
C3_ContactCooldown ==
    [][ (pc = "update" /\ ent_idx <= Len(entities)) =>
          LET e == entities[ent_idx]
              damage == Get(e.stats, "damage", 0)
              after == entities'[ent_idx]
          IN  /\ Len(ctx'.damage_events) >= Len(ctx.damage_events)
              /\ Len(appended_events) <= 1
              /\ cooled(e, dt) > 0 => appended_events = <<>>
              /\ appended_events = <<>> => after.contact_cooldown = cooled(e, dt)
              /\ appended_events # <<>> =>
                    /\ after.contact_cooldown = CONTACT_COOLDOWN
                    /\ appended_events[1].amount = damage
                    /\ appended_events[1].target = after.current_target
                    /\ e.uid \in DOMAIN hit_clock =>
                          hit_clock[e.uid].since + dt >= CONTACT_COOLDOWN
              /\ \A rnd \in RndInputs(e) :
                    LET moved == update(e, ctx, dt, rnd).entity
                    IN  (/\ after = clamp_to_map(moved)
                         /\ damage > 0
                         /\ cooled(e, dt) = 0
                         /\ has_flag(Entities[e.def].flags, DEF_FLAG_TARGET_PLAYER)
                         /\ IsSome(ctx.player)
                         /\ overlaps(world_hitbox(e.def, moved.pos), ctx.player.hitbox)) =>
                            appended_events = <<DamageEvent(damage, ctx.player)>>
      ]_vars

\* C3 witness: an actor with damage 5 that targets the player appended one
\* event, has since had two Updates of 1/60 s without another event, and
\* still overlaps the player's hitbox
C3_Witness ==
    /\ pc = "update"
    /\ \E k \in 1..Len(entities) :
          LET e == entities[k]
          IN  /\ k < ent_idx
              /\ Get(e.stats, "damage", 0) = 5
              /\ IsSome(e.current_target)
              /\ e.current_target.tag = "Player"
              /\ e.uid \in DOMAIN hit_clock
              /\ hit_clock[e.uid] = [since |-> 200, count |-> 1]
              /\ e.contact_cooldown = CONTACT_COOLDOWN - 200
              /\ overlaps(world_hitbox(e.def, e.pos), ctx.player.hitbox)

----------------------------------------------------------------------------
(* Properties of the behaviour list *)

\* identity of a behaviour entry and a desired action, entity.rs:372-374
same_action(b, d) == b.name = d.name /\ b.params = d.params

\* what the reconciliation owes desired action i: the next unused old entry
\* with its name and parameter table, state untouched, or a zeroed entry
expected_entry(old, des, i) ==
    LET matches == SelectSeq(old, LAMBDA b : same_action(b, des[i]))
        earlier == Cardinality({j \in 1..(i - 1) : same_action(des[j], des[i])})
    IN  IF earlier < Len(matches) THEN matches[earlier + 1]
        ELSE BehaviorRuntime(des[i].name, des[i].params, 0, ZERO, 0)

\* the actor as Update's reconciliation must leave it
expected_reconciled(e, c, step) ==
    LET s1 == begin_update(e, c, step).entity
        des == desired_actions(s1, c.view_height)
    IN  [s1 EXCEPT !.behaviors =
                      [i \in 1..Len(des) |-> expected_entry(s1.behaviors, des, i)]]

\* C4: the behaviour list an Update leaves is what the movement routines
\* make of this list: one entry per desired action, in order, which is the
\* old entry with equal name and parameter table (timer, direction and
\* cooldown as the previous frame left them, each old entry used once) or,
\* without such an entry, a new one with timer, direction and cooldown zero;
\* old entries without a desired action are gone.
C4_Reconciliation ==
    [][ (pc = "update" /\ ent_idx <= Len(entities)) =>
          LET e == entities[ent_idx]
              want == expected_reconciled(e, ctx, dt)
          IN  /\ reconcile(begin_update(e, ctx, dt).entity, ctx.view_height).behaviors
                   = want.behaviors
              /\ \E rnd \in RndInputs(e) :
                    entities'[ent_idx].behaviors = move_behaviors(want, dt, rnd).behaviors
      ]_vars

\* C4 witness: an actor about to be updated holds an entry with a running
\* timer or cooldown whose action is desired again with the same parameters
\* and is taken over as it is, while at least two actions are desired
C4_Witness ==
    /\ pc = "update"
    /\ ent_idx <= Len(entities)
    /\ LET s1 == begin_update(entities[ent_idx], ctx, dt).entity
           des == desired_actions(s1, ctx.view_height)
       IN  /\ \E i \in 1..Len(des), j \in 1..Len(s1.behaviors) :
                 /\ same_action(s1.behaviors[j], des[i])
                 /\ (s1.behaviors[j].timer > 0 \/ s1.behaviors[j].cooldown > 0)
                 /\ reconcile(s1, ctx.view_height).behaviors[i] = s1.behaviors[j]
           /\ Len(des) >= 2


\* a list that is exactly one idle entry with an empty parameter table
only_idle(behaviors) ==
    /\ Len(behaviors) = 1
    /\ behaviors[1].name = "idle"
    /\ behaviors[1].params = EmptyParams

\* the behaviour lists of a live set are non-empty and name registered
\* actions only; an actor of a template without tree has the idle list
behaviors_registered(ents) ==
    \A k \in 1..Len(ents) :
        /\ ents[k].behaviors # <<>>
        /\ \A b \in 1..Len(ents[k].behaviors) :
              /\ registry_has(ents[k].behaviors[b].name)
              /\ ents[k].behaviors[b].func = ents[k].behaviors[b].name
        /\ ~IsSome(Entities[ents[k].def].behavior_tree) => only_idle(ents[k].behaviors)

\* C7: before and after every step (so after every Spawn and every Update)
\* each live actor's behaviour list is non-empty and names registered
\* actions only, and it is the single idle entry with empty parameters for a
\* template without tree; an Update leaves that idle list whenever the tree
\* evaluation fails, selects nothing, or selects unregistered names only.
C7_IdleFallback ==
    [][ /\ behaviors_registered(entities)
        /\ behaviors_registered(entities')
        /\ (pc = "update" /\ ent_idx <= Len(entities)) =>
              LET s1 == begin_update(entities[ent_idx], ctx, dt).entity
                  tree == Entities[s1.def].behavior_tree
                  selected == select_actions(tree.v, s1, ctx.view_height)
              IN  (\/ ~IsSome(tree)
                   \/ ~eval_behavior(tree.v, s1, ctx.view_height).ok
                   \/ selected = <<>>
                   \/ \A i \in 1..Len(selected) : ~registry_has(selected[i].name)) =>
                      only_idle(entities'[ent_idx].behaviors)
      ]_vars

\* C7 witness: an actor updated in this frame whose tree selects something,
\* all of it unregistered, holds the idle list
C7_Witness ==
    /\ pc = "update"
    /\ \E k \in 1..Len(entities) :
          LET e == entities[k]
              tree == Entities[e.def].behavior_tree
              at_start == [e EXCEPT !.pos = ctx.entities[k].pos]
              selected == select_actions(tree.v, at_start, ctx.view_height)
          IN  /\ k < ent_idx
              /\ IsSome(tree)
              /\ selected # <<>>
              /\ \A i \in 1..Len(selected) : ~registry_has(selected[i].name)
              /\ only_idle(e.behaviors)

----------------------------------------------------------------------------
(* Properties of the frame *)

\* the ids of a list of actors or of snapshot entries, in order
uids_of(ents) == [k \in 1..Len(ents) |-> ents[k].uid]
ids_of(snapshot) == [k \in 1..Len(snapshot) |-> snapshot[k].id]

\* C8: in the update phase the live set keeps its members and every hp, the
\* player's included; an Update changes its own actor only, leaves the
\* events already in the frame's list in place and hands over to the next
\* actor; the phase starts at the first actor of the live set the snapshot
\* was taken from and ends after the last one; outside the application of
\* the list no live actor disappears or changes hp.
C8_DeferredDamage ==
    [][ /\ pc = "update" =>
              /\ uids_of(entities') = uids_of(entities)
              /\ \A k \in 1..Len(entities) : entities'[k].hp = entities[k].hp
              /\ player'.hp = player.hp
              /\ player_dead' = player_dead
              /\ uids_of(entities) = ids_of(ctx.entities)
        /\ (pc = "update" /\ ent_idx <= Len(entities)) =>
              /\ pc' = "update"
              /\ ent_idx' = ent_idx + 1
              /\ \A k \in 1..Len(entities) : k # ent_idx => entities'[k] = entities[k]
              /\ Len(ctx'.damage_events) >= Len(ctx.damage_events)
              /\ SubSeq(ctx'.damage_events, 1, Len(ctx.damage_events)) = ctx.damage_events
              /\ damage_events' = damage_events
        /\ (pc = "loop" /\ pc' = "update") =>
              /\ ent_idx' = 1
              /\ ids_of(ctx'.entities) = uids_of(entities)
              /\ ctx'.damage_events = <<>>
              /\ damage_events' = <<>>
        /\ (pc = "update" /\ pc' # "update") =>
              /\ pc' = "apply"
              /\ ent_idx = Len(entities) + 1
              /\ damage_events' = ctx.damage_events
        /\ pc # "apply" =>
              /\ Len(entities') >= Len(entities)
              /\ \A k \in 1..Len(entities) :
                    /\ entities'[k].uid = entities[k].uid
                    /\ entities'[k].hp = entities[k].hp
              /\ player'.hp = player.hp
      ]_vars

\* C8 witness: an actor that an earlier Update of this frame hit with a
\* DamageEvent has had its own Update afterwards, with the hp it started with
C8_Witness ==
    /\ pc = "update"
    /\ \E j, k \in 1..Len(entities) :
          /\ j < k /\ k < ent_idx
          /\ entities[j].uid \in DOMAIN hit_clock
          /\ hit_clock[entities[j].uid].since = 0
          /\ IsSome(entities[j].current_target)
          /\ entities[j].current_target.tag = "Entity"
          /\ entities[j].current_target.id = entities[k].uid
          /\ \E n \in 1..Len(ctx.damage_events) :
                /\ ctx.damage_events[n].target.tag = "Entity"
                /\ ctx.damage_events[n].target.id = entities[k].uid
          /\ entities[k].hp = entities[k].max_hp
          /\ entities[k].pos # ctx.entities[k].pos

RECURSIVE damage_total(_, _, _)
\* the positive amounts of the events from k on that aim at actor id
damage_total(events, k, id) ==
    IF k > Len(events) THEN 0
    ELSE damage_total(events, k + 1, id)
         + (IF /\ events[k].target.tag = "Entity"
               /\ events[k].target.id = id
               /\ events[k].amount > 0
            THEN events[k].amount ELSE 0)

\* the ids handed out so far that are no longer (or never were) live
not_live == (1..ENTITY_ID_COUNTER) \ {entities[k].uid : k \in 1..Len(entities)}

\* C9: applying the frame's events leaves exactly the live actors whose hp,
\* lowered by the events aimed at them and floored at 0, is positive, in
\* order and with that hp; between frames every live actor has hp > 0; ids
\* are unique and below the counter, a step adds no id but the counter's
\* next one, so a removed actor never returns, and a snapshot holds live
\* actors only; an event aimed at an id that is not live changes nothing.
C9_DeadRemoved ==
    [][ /\ pc = "apply" =>
              LET hp_after(e) == Max(e.hp - damage_total(damage_events, 1, e.uid), 0)
                  survivors == SelectSeq(entities, LAMBDA e : hp_after(e) > 0)
              IN  /\ Len(entities') = Len(survivors)
                  /\ \A k \in 1..Len(survivors) :
                        entities'[k] = [survivors[k] EXCEPT !.hp = hp_after(survivors[k])]
                  /\ \A id \in not_live, amount \in {1, 7} :
                        apply_events(entities, player.hp,
                                     <<DamageEvent(amount,
                                                   EntityTarget(id, 1, "Enemy", ZERO,
                                                                Rect(0, 0, 0, 0), TRUE))>>
                                     \o damage_events, 1)
                          = apply_events(entities, player.hp, damage_events, 1)
        /\ pc' = "loop" => \A k \in 1..Len(entities') : entities'[k].hp > 0
        /\ \A k \in 1..Len(entities') :
              /\ entities'[k].uid < ENTITY_ID_COUNTER'
              /\ \A j \in 1..Len(entities') : entities'[j].uid = entities'[k].uid => j = k
              /\ \/ \E j \in 1..Len(entities) : entities[j].uid = entities'[k].uid
                 \/ entities'[k].uid = ENTITY_ID_COUNTER
        /\ ENTITY_ID_COUNTER' >= ENTITY_ID_COUNTER
        /\ pc' = "update" =>
              \A j \in 1..Len(ctx'.entities) :
                  /\ ctx'.entities[j].alive
                  /\ \E k \in 1..Len(entities') : entities'[k].uid = ctx'.entities[j].id
      ]_vars

\* C9 witness: a frame is running whose snapshot lacks an actor that an
\* earlier frame's events brought to hp 0
C9_Witness ==
    /\ pc = "update"
    /\ \E id \in 1..(ENTITY_ID_COUNTER - 1) :
          /\ id \in not_live
          /\ \A j \in 1..Len(ctx.entities) : ctx.entities[j].id # id

\* C10: an actor updated in this frame that holds an actor target holds the
\* current snapshot's entry of that id (position, hitbox and kind included),
\* the entry is alive, and the id is not the actor's own.
C10_TargetIsSnapshotEntry ==
    pc = "update" =>
        \A k \in 1..Len(entities) :
            LET e == entities[k]
            IN  (k < ent_idx /\ IsSome(e.current_target)
                 /\ e.current_target.tag = "Entity") =>
                    /\ e.current_target.id # e.uid
                    /\ \E j \in 1..Len(ctx.entities) :
                          /\ ctx.entities[j].id = e.current_target.id
                          /\ ctx.entities[j].alive
                          /\ ctx.entities[j] = e.current_target

\* C10 witness: an actor updated in this frame took its target from the
\* cache, whose copy holds another position than the snapshot entry returned
C10_Witness ==
    /\ pc = "update"
    /\ \E k \in 1..Len(entities) :
          LET e == entities[k]
              key == cache_key(e)
          IN  /\ k < ent_idx
              /\ IsSome(e.current_target)
              /\ e.current_target.tag = "Entity"
              /\ key \in DOMAIN ctx.target_cache
              /\ IsSome(ctx.target_cache[key])
              /\ ctx.target_cache[key].id = e.current_target.id
              /\ ctx.target_cache[key].pos # e.current_target.pos


----------------------------------------------------------------------------
(* Properties of the tree evaluation, checked under SpecTree *)

RECURSIVE sub_nodes(_)
\* a tree's nodes
sub_nodes(node) ==
    {node} \cup (IF node.type \in {"Sequence", "Selector"}
                 THEN UNION {sub_nodes(node.children[k]) : k \in 1..Len(node.children)}
                 ELSE {})

\* the result "failure, no primary, no secondaries", entity.rs:1017
nothing == [action |-> None, multiple |-> <<>>, ok |-> FALSE]

\* the evaluation of the children of a node for the probing actor
child_results(node) ==
    [k \in 1..Len(node.children) |->
        eval_behavior(node.children[k], probe.entity, CAMERA_FOV)]

some_child_fails(node) ==
    \E k \in 1..Len(node.children) : ~child_results(node)[k].ok

\* C5: once evaluated, a tree whose root is a Sequence with a failing child
\* has the result failure without primary and without secondary actions, so
\* does every such Sequence inside the tree, and select_actions returns the
\* empty list for the tree.
C5_SequenceShortCircuit ==
    probe.stage # "input" =>
        /\ (probe.tree.type = "Sequence" /\ some_child_fails(probe.tree)) =>
              /\ probe.result = nothing
              /\ probe.stage = "selected" => probe.selected = <<>>
        /\ \A n \in sub_nodes(probe.tree) :
              (n.type = "Sequence" /\ some_child_fails(n)) =>
                  eval_behavior(n, probe.entity, CAMERA_FOV) = nothing

\* C5 witness: an evaluated Sequence whose first child succeeded with a
\* secondary action, whose second child failed and whose third is an action
C5_Witness ==
    /\ probe.stage = "evaluated"
    /\ probe.tree.type = "Sequence"
    /\ Len(probe.tree.children) = 3
    /\ child_results(probe.tree)[1].ok
    /\ child_results(probe.tree)[1].multiple # <<>>
    /\ ~child_results(probe.tree)[2].ok
    /\ probe.tree.children[3].type = "Action"
    /\ probe.result = nothing

RECURSIVE concat_ok(_, _)
\* the secondary actions of the successful children from child k on
concat_ok(results, k) ==
    IF k > Len(results) THEN <<>>
    ELSE (IF results[k].ok THEN results[k].multiple ELSE <<>>) \o concat_ok(results, k + 1)

\* C6: for an evaluated Selector, the primary action is the primary action
\* of its first successful child (none, and failure, if no child succeeds),
\* the secondary actions are those of all its successful children in order,
\* and the list select_actions returns has no two entries with the same name
\* and parameters.
C6_SelectorFirstMatch ==
    (probe.stage # "input" /\ probe.tree.type = "Selector") =>
        LET results == child_results(probe.tree)
            ok == {k \in 1..Len(results) : results[k].ok}
            first == CHOOSE k \in ok : \A j \in ok : k <= j
        IN  /\ probe.result.ok = (ok # {})
            /\ probe.result.action = IF ok # {} THEN results[first].action ELSE None
            /\ probe.result.multiple = concat_ok(results, 1)
            /\ probe.stage = "selected" =>
                  \A i, j \in 1..Len(probe.selected) :
                      same_action(probe.selected[i], probe.selected[j]) => i = j


\* no two entries of the list agree in name and parameter table
distinct_actions(list) ==
    \A i, j \in 1..Len(list) :
        (i # j) => ~(list[i].name = list[j].name /\ list[i].params = list[j].params)
\* the secondary actions of the probed evaluation that select_actions keeps:
\* those that equal neither the primary nor an earlier secondary, in order
kept_secondaries ==
    LET m == probe.result.multiple
        Keep(k) == /\ ~(IsSome(probe.result.action) /\ m[k] = probe.result.action.v)
                   /\ \A j \in 1..(k - 1) : m[j] # m[k]
        RECURSIVE From(_)
        From(k) == IF k > Len(m) THEN <<>>
                   ELSE (IF Keep(k) THEN <<m[k]>> ELSE <<>>) \o From(k + 1)
    IN  From(1)

\* C18: the list select_actions returns holds no two entries equal in name
\* and parameter table; it is empty when the evaluation of the root fails;
\* otherwise it is the primary action, when there is one, followed by the
\* secondary actions in the order collected; and the behaviour list
\* reconciled with it holds no two entries equal in name and parameters.
C18_DistinctSelection ==
    /\ probe.stage \in {"selected", "reconciled"} =>
          /\ distinct_actions(probe.selected)
          /\ ~probe.result.ok => probe.selected = <<>>
          /\ probe.result.ok =>
                probe.selected =
                    (IF IsSome(probe.result.action) THEN <<probe.result.action.v>>
                     ELSE <<>>) \o kept_secondaries
    /\ probe.stage = "reconciled" => distinct_actions(probe.entity.behaviors)

\* C18 witness: the evaluation collected the same secondary action twice and
\* a primary action besides; the selection holds each once, primary first,
\* and the behaviour list was reconciled with it
C18_Witness ==
    /\ probe.stage = "reconciled"
    /\ probe.result.ok /\ IsSome(probe.result.action)
    /\ \E i, j \in 1..Len(probe.result.multiple) :
          i # j /\ probe.result.multiple[i] = probe.result.multiple[j]
    /\ Len(probe.selected) >= 2 /\ probe.selected[1] = probe.result.action.v
    /\ Len(probe.entity.behaviors) >= 2

----------------------------------------------------------------------------
(* Properties of Spawn and of health, checked under Spec *)

\* C16: the actors spawned before the loop have the ids 1, 2, ... in spawn
\* order, and every step keeps all live ids below the counter, never lowers
\* the counter and gives an actor that joins the live set an id not below the
\* counter of before: every new id is greater than every id handed out
\* earlier, whether its actor is still live or was removed.
C16_FreshIds ==
    /\ \A k \in 1..Len(entities) : entities[k].uid = k
    /\ [][/\ ENTITY_ID_COUNTER' >= ENTITY_ID_COUNTER
          /\ \A k \in 1..Len(entities') : entities'[k].uid < ENTITY_ID_COUNTER'
          /\ \A k \in 1..Len(entities') :
                (\A j \in 1..Len(entities) : entities[j].uid # entities'[k].uid)
                    => entities'[k].uid >= ENTITY_ID_COUNTER]_vars

\* C16 witness: the fourth actor ever created is live after an earlier one
\* was removed
C16_Witness ==
    /\ \E k \in 1..Len(entities) : entities[k].uid = 4
    /\ \E u \in 1..3 : \A k \in 1..Len(entities) : entities[k].uid # u

\* entry k of the actor's behaviour list is a dash behaviour in progress
dash_running(entity, k) ==
    /\ entity.behaviors[k].name \in {"dash_at_target", "virabird_ai"}
    /\ entity.behaviors[k].timer > 0

\* C19: is_dashing holds exactly when some entry of the actor's behaviour
\* list is a dash behaviour (dash_at_target or virabird_ai) whose timer is
\* positive, also when that entry is a secondary action and not the first.
C19_DashingAnyEntry ==
    \A i \in 1..Len(entities) :
        is_dashing(entities[i]) <=>
            \E k \in 1..Len(entities[i].behaviors) : dash_running(entities[i], k)

----------------------------------------------------------------------------
(* Properties of the order of a frame, checked under Spec *)

\* the actor about to be updated as the top of Update leaves it once the
\* target of this Update is known: at rest, cooldown ticked
with_target(e, target) ==
    [e EXCEPT !.vel = ZERO, !.current_target = target,
              !.contact_cooldown = cooled(e, dt)]
\* the (name, params) of the entries of a behaviour list
actions_of(behaviors) ==
    [k \in 1..Len(behaviors) |-> SelectedAction(behaviors[k].name, behaviors[k].params)]
\* the hitbox the contact check of the actor holds against its target
contact_hitbox(target) ==
    IF target.tag = "Player" THEN ctx.player.hitbox ELSE target.hitbox
\* some hp of the live set or of the player differs after the step, or an
\* actor has left the live set
health_changed ==
    \/ player'.hp # player.hp
    \/ \E k \in 1..Len(entities) :
          \/ \A j \in 1..Len(entities') : entities'[j].uid # entities[k].uid
          \/ \E j \in 1..Len(entities') :
                entities'[j].uid = entities[k].uid /\ entities'[j].hp # entities[k].hp

\* C20: a frame updates the actors of the live set one after the other, each
\* once, in live-set order.  An Update resolves the target first; the tree is
\* evaluated for the actor with that target at its position before the move;
\* the list is reconciled, the movement routines run and the speed is
\* clamped; the sweep moves the actor with that velocity; the contact check
\* holds the hitbox at the position after the move against the target.  The
\* separator runs when the last actor was updated, and only the step after
\* it applies the frame's events.
C20_FrameOrder ==
    [][ /\ (pc = "loop" /\ pc' = "update") => ent_idx' = 1
        /\ (pc = "update" /\ ent_idx <= Len(entities)) =>
              LET e == entities[ent_idx]
                  after == entities'[ent_idx]
                  seen == with_target(e, after.current_target)
                  damage == Get(e.stats, "damage", 0)
              IN  /\ pc' = "update" /\ ent_idx' = ent_idx + 1
                  /\ \A k \in 1..Len(entities) : k # ent_idx => entities'[k] = entities[k]
                  /\ after.current_target = resolve_target(ctx, e).result
                  /\ actions_of(after.behaviors) = desired_actions(seen, ctx.view_height)
                  /\ \E rnd \in RndInputs(e) :
                      \E routed \in {move_behaviors(reconcile(seen, ctx.view_height),
                                                     dt, rnd)} :
                      \E swept \in {move_and_collide(routed, ctx', dt)} :
                      \E touching \in
                            {/\ IsSome(after.current_target)
                             /\ overlaps(world_hitbox(e.def, swept.pos),
                                         contact_hitbox(after.current_target))} :
                            /\ length(routed.vel) <= max_speed_of(routed)
                            /\ after.pos = clamp_to_map(swept).pos
                            /\ after.vel = swept.vel
                            /\ after.behaviors = routed.behaviors
                            /\ appended_events # <<>> => touching
                            /\ (touching /\ damage > 0 /\ cooled(e, dt) = 0)
                                  => appended_events # <<>>
        /\ (pc = "update" /\ ent_idx > Len(entities)) =>
              /\ pc' = "apply"
              /\ entities' = resolve_entity_overlaps(entities)
              /\ damage_events' = ctx.damage_events
        /\ (pc = "update" /\ pc' = "apply") => ent_idx > Len(entities)
        /\ health_changed => (pc = "apply" /\ pc' = "loop")
        /\ pc = "apply" =>
              /\ pc' = "loop"
              /\ \E r \in {apply_events(entities, player.hp, damage_events, 1)} :
                    /\ player'.hp = r.hp
                    /\ entities' = SelectSeq(r.ents, LAMBDA x : x.hp > 0)
      ]_vars

\* C20 witness: an actor of the live set is about to be updated after the
\* Update of an earlier one appended a DamageEvent in this frame, which is
\* still waiting in the context
C20_Witness ==
    /\ pc = "update" /\ 1 < ent_idx /\ ent_idx <= Len(entities)
    /\ ctx.damage_events # <<>>
    /\ damage_events = <<>>

----------------------------------------------------------------------------
(* Properties of single calls, checked under SpecCalls *)

\* the probe holds a finished call of fn
called(fn) == probe.fn = fn /\ probe.stage = "done"
\* the template flags of the probed actor
probe_flags == Entities[probe.entity.def].flags

\* C11: resolve_target answers by priority.  A forced context target is
\* returned as it is; otherwise an actor with the target-player flag gets the
\* player snapshot, or none when there is no player, whatever nearest-* flags
\* it also has; otherwise an actor with a zero nearest-* mask gets none; in
\* these three cases the cache is left as it was.  Only in the remaining case
\* is the cache consulted: a remembered miss is answered with none, and a key
\* not in the cache is entered with the answer of the scan.
C11_TargetPriority ==
    called("resolve_target") =>
        LET c == probe.ctx
            key == <<probe.entity.uid, target_mask(probe_flags)>>
        IN  IF IsSome(c.target)
            THEN probe.result = c.target /\ probe.target_cache = c.target_cache
            ELSE IF has_flag(probe_flags, DEF_FLAG_TARGET_PLAYER)
            THEN probe.result = c.player /\ probe.target_cache = c.target_cache
            ELSE IF target_mask(probe_flags) = 0
            THEN probe.result = None /\ probe.target_cache = c.target_cache
            ELSE /\ key \in DOMAIN probe.target_cache
                 /\ (key \in DOMAIN c.target_cache /\ c.target_cache[key] = None)
                        => probe.result = None
                 /\ key \notin DOMAIN c.target_cache
                        => probe.target_cache[key] = probe.result

\* C11 witness: the asking actor has the target-player flag and a nearest-*
\* flag, nothing is forced, the player is absent and the cache remembers an
\* actor for its key; the call has answered none
C11_Witness ==
    /\ called("resolve_target")
    /\ has_flag(probe_flags, DEF_FLAG_TARGET_PLAYER)
    /\ target_mask(probe_flags) # 0
    /\ probe.ctx.target = None /\ probe.ctx.player = None
    /\ <<probe.entity.uid, target_mask(probe_flags)>> \in DOMAIN probe.ctx.target_cache
    /\ IsSome(probe.ctx.target_cache[<<probe.entity.uid, target_mask(probe_flags)>>])
    /\ probe.result = None

\* the world hitbox of the probed resolve_collisions_axis call
probe_rect ==
    Rect(probe.pos.x + probe.hitbox.x, probe.pos.y + probe.hitbox.y,
         probe.hitbox.w, probe.hitbox.h)
\* no collider of the call overlaps the world hitbox
clear_of_colliders ==
    \A k \in 1..Len(probe.colliders) : ~overlaps(probe_rect, probe.colliders[k])

\* C12: when the actor's world hitbox overlaps none of the colliders,
\* resolve_collisions_axis returns the position and the axis velocity it was
\* given, for either axis, any velocity and an empty collider list.
C12_NoOverlapUnchanged ==
    (called("resolve_collisions_axis") /\ clear_of_colliders) =>
        probe.result = [pos |-> probe.pos, vel |-> probe.vel_axis]

\* C12 witness: a moving actor swept along Y against two colliders that do
\* not overlap it has kept position and velocity
C12_Witness ==
    /\ called("resolve_collisions_axis") /\ clear_of_colliders
    /\ probe.axis = "Y" /\ probe.vel_axis < 0 /\ Len(probe.colliders) = 2
    /\ probe.result = [pos |-> probe.pos, vel |-> probe.vel_axis]

\* the world hitbox of actor k of the probed separation pass, before it
pass_hitbox(k) == world_hitbox(probe.ents[k].def, probe.ents[k].pos)
\* the penetration depth of the two hitboxes along each axis
pass_overlap_x ==
    Min(pass_hitbox(1).x + pass_hitbox(1).w, pass_hitbox(2).x + pass_hitbox(2).w)
        - Max(pass_hitbox(1).x, pass_hitbox(2).x)
pass_overlap_y ==
    Min(pass_hitbox(1).y + pass_hitbox(1).h, pass_hitbox(2).y + pass_hitbox(2).h)
        - Max(pass_hitbox(1).y, pass_hitbox(2).y)
\* the two actors are mutually collidable and their hitboxes overlap
pass_overlapping ==
    /\ entities_should_collide(probe.ents[1].def, probe.ents[2].def)
    /\ pass_overlap_x > 0 /\ pass_overlap_y > 0
\* the displacement of actor k by the pass
pass_moved(k) ==
    Vec2(probe.result[k].pos.x - probe.ents[k].pos.x,
         probe.result[k].pos.y - probe.ents[k].pos.y)
\* twice the centre of the hitbox of actor k along the axis
pass_centre2(k, axis) ==
    IF axis = "X" THEN 2 * pass_hitbox(k).x + pass_hitbox(k).w
    ELSE 2 * pass_hitbox(k).y + pass_hitbox(k).h
\* where the pass sends actor k when nothing holds it back
pass_target(k) ==
    LET axis == IF pass_overlap_x <= pass_overlap_y THEN "X" ELSE "Y"
        amount == Div(Min(pass_overlap_x, pass_overlap_y), 2) + COLLISION_EPSILON
        first_low == pass_centre2(1, axis) <= pass_centre2(2, axis)
    IN  PushPos(probe.ents[k].pos, axis,
                IF first_low = (k = 1) THEN -amount ELSE amount)
\* the map border holds one of the two actors back
pass_clamped ==
    \E k \in 1..2 :
        clamp_hitbox_to_rect(Entities[probe.ents[k].def].hitbox, pass_target(k),
                             get_border_hitbox) # pass_target(k)
\* the pass moved the two actors by amount each along the axis only, in
\* opposite directions, each away from the other's centre
pushed_apart(axis, amount) ==
    LET along(v) == IF axis = "X" THEN v.x ELSE v.y
        across(v) == IF axis = "X" THEN v.y ELSE v.x
        first_low == pass_centre2(1, axis) <= pass_centre2(2, axis)
    IN  /\ across(pass_moved(1)) = 0 /\ across(pass_moved(2)) = 0
        /\ along(pass_moved(1)) = -along(pass_moved(2))
        /\ along(pass_moved(1)) = IF first_low THEN -amount ELSE amount
\* scenario C: two crates (10x10 hitboxes) with the second 6 px to the right
scenario_C ==
    /\ Entities[probe.ents[1].def].id = "crate" /\ Entities[probe.ents[2].def].id = "crate"
    /\ probe.ents[2].pos = Vec2(probe.ents[1].pos.x + 6000, probe.ents[1].pos.y)
\* the horizontal gap between the two hitboxes after the pass
pass_gap_x ==
    Max(world_hitbox(probe.result[1].def, probe.result[1].pos).x,
        world_hitbox(probe.result[2].def, probe.result[2].pos).x)
    - Min(world_hitbox(probe.result[1].def, probe.result[1].pos).x + pass_hitbox(1).w,
          world_hitbox(probe.result[2].def, probe.result[2].pos).x + pass_hitbox(2).w)

\* C13 as stated: two mutually collidable overlapping actors are moved by one
\* pass by equal and opposite amounts along the axis of smaller penetration
\* (X on equal), away from each other, the other coordinate unchanged; in
\* scenario C the gap is not negative and each actor is displaced by 2 px.
C13_DisplacementOfTwo ==
    (called("overlap_pass") /\ pass_overlapping) =>
        /\ \E amount \in 1..20000 :
              pushed_apart(IF pass_overlap_x <= pass_overlap_y THEN "X" ELSE "Y", amount)
        /\ scenario_C => pass_gap_x >= 0 /\ pushed_apart("X", 2000)

\* C13 amended: unless the map border holds an actor back, the pass moves the
\* two actors by half the smaller penetration plus the epsilon each (X on
\* equal penetration), in opposite directions away from each other, the
\* other coordinate unchanged; in scenario C inside the map the gap is
\* positive and each actor is displaced by 2.001 px.
C13_SeparationPass ==
    (called("overlap_pass") /\ pass_overlapping /\ ~pass_clamped) =>
        /\ probe.any
        /\ IF pass_overlap_x <= pass_overlap_y
           THEN pushed_apart("X", Div(pass_overlap_x, 2) + COLLISION_EPSILON)
           ELSE pushed_apart("Y", Div(pass_overlap_y, 2) + COLLISION_EPSILON)
        /\ scenario_C => pass_gap_x = 2 * COLLISION_EPSILON /\ pushed_apart("X", 2001)

\* C13 witness: scenario C inside the map, after the pass
C13_Witness ==
    /\ called("overlap_pass") /\ pass_overlapping /\ ~pass_clamped /\ scenario_C
    /\ probe.result[1].pos.x = probe.ents[1].pos.x - 2001
    /\ probe.result[2].pos.x = probe.ents[2].pos.x + 2001

\* how far the probed wander call drove the timer below zero
wander_overshoot == probe.step - probe.behavior.timer

\* C14: after a call of movement_wander the behaviour's direction is not
\* zero and its timer is positive; a call that drives the timer to zero or
\* below takes the direction just drawn and, with the interval of 1.5 s,
\* leaves a timer of at least 1.5 s minus the overshoot.
C14_WanderKeepsMoving ==
    called("movement_wander") =>
        /\ probe.result.behavior.dir # ZERO
        /\ probe.result.behavior.timer > 0
        /\ wander_overshoot >= 0 =>
              /\ probe.result.behavior.dir = probe.rnd.dir
              /\ probe.behavior.params = EmptyParams =>
                    probe.result.behavior.timer >= 9000 - wander_overshoot

\* C14 witness: a wander behaviour of interval 1.5 s whose timer of 1/60 s is
\* overrun by a frame of 0.3 s has turned to the drawn direction
C14_Witness ==
    /\ called("movement_wander")
    /\ probe.behavior.params = EmptyParams
    /\ probe.behavior.timer = 100 /\ probe.step = 1800
    /\ probe.behavior.dir # ZERO /\ probe.behavior.dir # probe.rnd.dir
    /\ probe.result.behavior.dir = probe.rnd.dir
    /\ probe.result.behavior.timer = 9000

\* the ids of the templates of the definition store
template_ids == {Entities[d].id : d \in 1..Len(Entities)}

\* C15: a Spawn with an id that names no template returns none, adds no
\* actor and leaves the id counter where it was; a Spawn with a known id
\* returns an instance whose template index is the one registered for the id.
C15_SpawnByTemplate ==
    called("spawn") =>
        IF probe.id \notin template_ids
        THEN /\ probe.result = None
             /\ Len(entities) = Len(InitialSpawns)
             /\ ENTITY_ID_COUNTER = Len(InitialSpawns) + 1
        ELSE /\ IsSome(probe.result)
             /\ Entities[probe.result.v.def].id = probe.id
             /\ \A d \in 1..Len(Entities) :
                   Entities[d].id = probe.id => probe.result.v.def = d

\* C15 witness: a Spawn of the unknown id "ghost" has returned none
C15_Witness ==
    /\ called("spawn") /\ probe.id = "ghost" /\ probe.result = None
    /\ ENTITY_ID_COUNTER = Len(InitialSpawns) + 1

\* C17: apply_damage with a positive amount leaves max(hp - amount, 0), with
\* an amount of zero or less it leaves hp as it was; after a Spawn and any
\* sequence of apply_damage calls 0 <= hp <= max_hp, and no call raises hp.
C17_HealthFloor ==
    probe.fn = "apply_damage" =>
        /\ 0 <= probe.entity.hp /\ probe.entity.hp <= probe.entity.max_hp
        /\ probe.stage = "done" =>
              /\ probe.entity.hp = IF probe.amount > 0
                                   THEN Max(probe.before - probe.amount, 0)
                                   ELSE probe.before
              /\ probe.entity.hp <= probe.before

\* C17 witness: an actor of more than 1 hp was brought to 0 by two calls,
\* and a third call with a negative amount has left it there
C17_Witness ==
    /\ called("apply_damage")
    /\ probe.entity.max_hp > 1 /\ probe.entity.hp = 0
    /\ probe.before = 0 /\ probe.amount = -1 /\ probe.amounts = <<>>

\* the solid rectangles around the cell of the hitbox centre at pos, none
\* when the centre lies outside the grid
terrain_around(def, pos, vel, step) ==
    LET grid == grid_index(hitbox_center_world(pos, Entities[def].hitbox))
    IN  IF IsSome(grid) THEN fill_hitboxes_around_grid(grid, collision_radius(vel, step))
        ELSE <<>>
\* the probed actor after the X step of its move
after_x_step ==
    move_axis(probe.entity, probe.result.dynamic_collision_scratch, probe.step, "X")
\* where the X step and the Y step put the probed actor before their sweep
x_step_pos ==
    [probe.entity.pos EXCEPT !.x = @ + Displacement(probe.entity.vel.x, probe.step)]
y_step_pos ==
    [after_x_step.pos EXCEPT !.y = @ + Displacement(after_x_step.vel.y, probe.step)]

\* C21: when the template's collide-with-terrain flag is set or the dynamic
\* obstacle set of the actor is not empty, the candidate set of the X step
\* and that of the Y step hold the solid terrain rectangles around the probe
\* cell, followed by the dynamic obstacles; terrain is left out only when
\* the flag is clear and there is no dynamic obstacle.
C21_TerrainGathered ==
    called("move_and_collide") =>
        LET dynamic == probe.result.dynamic_collision_scratch
        IN  (Entities[probe.entity.def].collides \/ dynamic # <<>>) =>
              /\ after_x_step.collision_scratch =
                    terrain_around(probe.entity.def, x_step_pos, probe.entity.vel,
                                   probe.step) \o dynamic
              /\ probe.result.collision_scratch =
                    terrain_around(probe.entity.def, y_step_pos, after_x_step.vel,
                                   probe.step) \o dynamic


(* Properties of the contact check of Update, checked under Spec *)

\* the snapshot hitboxes the target of an Update can be hit at: the hitbox of
\* the player snapshot for the player, the hitbox of the live snapshot entry
\* of its id and of a targeted kind for an actor, none for a bare position
target_hitboxes(e, target) ==
    CASE target.tag = "Player" ->
            IF IsSome(ctx.player) THEN {ctx.player.hitbox} ELSE {}
      [] target.tag = "Entity" ->
            {ctx.entities[k].hitbox : k \in
                {j \in 1..Len(ctx.entities) :
                    /\ ctx.entities[j].id = target.id
                    /\ ctx.entities[j].alive
                    /\ is_kind_targetable(Entities[e.def].flags, ctx.entities[j].kind)}}
      [] OTHER -> {}

\* C24: an Update appends a DamageEvent exactly when, after the move, the
\* actor's damage stat is positive, its contact cooldown (ticked at the top
\* of the Update) is 0, its resolved target is the player or an actor that is
\* alive in the snapshot and of a targeted kind, and the actor's world hitbox
\* at the position the sweep left it at overlaps the snapshot hitbox of that
\* target.  The event carries the damage stat and the target, it is the only
\* one the Update appends, and the cooldown is then 0.3 s; without an event
\* the cooldown is the ticked one.  A target that is a bare position gives no
\* event.
C24_ContactEvent ==
    [][ (pc = "update" /\ ent_idx <= Len(entities)) =>
           LET e == entities[ent_idx]
               after == entities'[ent_idx]
               target == after.current_target
               damage == Get(e.stats, "damage", 0)
           IN  /\ ctx'.damage_events = ctx.damage_events \o appended_events
               /\ \E rnd \in RndInputs(e) :
                   \E routed \in {move_behaviors(
                                      reconcile(with_target(e, target), ctx.view_height),
                                      dt, rnd)} :
                   \E swept \in {move_and_collide(routed, ctx', dt)} :
                   \E touching \in
                         {\E hb \in target_hitboxes(e, target) :
                              overlaps(world_hitbox(e.def, swept.pos), hb)} :
                         /\ after.pos = clamp_to_map(swept).pos
                         /\ after.vel = swept.vel
                         /\ after.behaviors = routed.behaviors
                         /\ appended_events # <<>> <=>
                               (damage > 0 /\ cooled(e, dt) = 0 /\ touching)
                         /\ appended_events # <<>> =>
                               /\ appended_events = <<DamageEvent(damage, target)>>
                               /\ after.contact_cooldown = CONTACT_COOLDOWN
                         /\ appended_events = <<>> =>
                               after.contact_cooldown = cooled(e, dt)
                         /\ target.tag \notin {"None", "Player", "Entity"} =>
                               appended_events = <<>>
      ]_vars

\* C24 witness: the Update of an actor whose target is another actor has
\* appended an event for that target, next to an actor with a damage stat
\* and an expired cooldown whose target stands apart and was not hit
C24_Witness ==
    /\ pc = "update" /\ ent_idx > 1
    /\ \E k \in 1..Len(ctx.damage_events) : ctx.damage_events[k].target.tag = "Entity"
    /\ \E k \in 1..(ent_idx - 1) :
          /\ Get(entities[k].stats, "damage", 0) > 0
          /\ entities[k].contact_cooldown = 0
          /\ IsSome(entities[k].current_target)

\* the snapshot entry is left out of the obstacles of an actor with these
\* flags and this target: the actor collides with no actor, the entry is its
\* target, or the entry is of a kind the actor does not collide with
obstacle_excluded(flags, target, other) ==
    \/ has_flag(flags, DEF_FLAG_NO_ENTITY_COLLISION)
    \/ target.tag = "Entity" /\ target.id = other.id
    \/ other.kind = "Enemy" /\ has_flag(flags, DEF_FLAG_NO_ENEMY_COLLISION)
    \/ other.kind = "Friend" /\ has_flag(flags, DEF_FLAG_NO_FRIEND_COLLISION)
    \/ other.kind = "Misc" /\ has_flag(flags, DEF_FLAG_NO_MISC_COLLISION)

same_behavior(a, b) ==
    [b EXCEPT !.timer = a.timer, !.dir = a.dir, !.cooldown = a.cooldown] = a
\* after differs from before in nothing but the velocity and the runtime
\* fields of its behaviours
routines_only(before, after) ==
    /\ [after EXCEPT !.vel = before.vel, !.behaviors = before.behaviors] = before
    /\ Len(after.behaviors) = Len(before.behaviors)
    /\ \A k \in 1..Len(before.behaviors) :
          same_behavior(before.behaviors[k], after.behaviors[k])

\* C28: the snapshot of a frame is taken from the live set when the context
\* is built, and during the update phase the actor snapshot, the player
\* snapshot and the rest of the context other than the target cache and the
\* event list stay as they are.  An Update changes its own actor and no
\* other, and not the player.  The movement routines of an Update change the
\* actor's velocity and the timer, direction and cooldown of the behaviours,
\* and neither the position nor the health nor any other field; the health
\* of the actor is the same after its Update.  An actor updated later
\* therefore finds in the snapshot the position the earlier actors had when
\* the frame began.
C28_SnapshotFrozen ==
    [][ /\ (pc = "loop" /\ pc' = "update") =>
              /\ Len(ctx'.entities) = Len(entities)
              /\ \A k \in 1..Len(entities) :
                    /\ ctx'.entities[k].id = entities[k].uid
                    /\ ctx'.entities[k].pos = entities[k].pos
                    /\ ctx'.entities[k].hitbox = world_hitbox(entities[k].def, entities[k].pos)
        /\ (pc = "update" /\ ent_idx <= Len(entities)) =>
              LET e == entities[ent_idx]
                  after == entities'[ent_idx]
              IN  /\ ctx'.entities = ctx.entities
                  /\ ctx'.player = ctx.player
                  /\ [ctx' EXCEPT !.target_cache = ctx.target_cache,
                                  !.damage_events = ctx.damage_events] = ctx
                  /\ Len(entities') = Len(entities)
                  /\ \A k \in 1..Len(entities) : k # ent_idx => entities'[k] = entities[k]
                  /\ player' = player /\ player_dead' = player_dead
                  /\ after.uid = e.uid /\ after.def = e.def
                  /\ after.hp = e.hp /\ after.max_hp = e.max_hp
                  /\ after.stats = e.stats /\ after.speed = e.speed
                  /\ \E rnd \in RndInputs(e) :
                      \E base \in {reconcile(with_target(e, after.current_target),
                                             ctx.view_height)} :
                      \E routed \in {run_behaviors(base, base.behaviors, 1, dt, rnd)} :
                            /\ routines_only(base, routed)
                            /\ after.behaviors = routed.behaviors
      ]_vars

\* C28 witness: in the update phase an actor that its Update has moved is
\* still at its old place in the snapshot, and a later actor is yet to be
\* updated
C28_Witness ==
    /\ pc = "update" /\ ent_idx <= Len(entities)
    /\ \E k \in 1..(ent_idx - 1) :
          /\ ctx.entities[k].id = entities[k].uid
          /\ ctx.entities[k].pos # entities[k].pos

\* the call reached the cache: nothing is forced, the asking actor has no
\* target-player flag and has a nearest-* flag
asks_cache ==
    /\ called("resolve_target")
    /\ probe.ctx.target = None
    /\ ~has_flag(probe_flags, DEF_FLAG_TARGET_PLAYER)
    /\ target_mask(probe_flags) # 0
probe_key == <<probe.entity.uid, target_mask(probe_flags)>>
\* the cache of the call holds an actor for the key of the asking actor
cached_actor ==
    /\ probe_key \in DOMAIN probe.ctx.target_cache
    /\ IsSome(probe.ctx.target_cache[probe_key])
\* snapshot entry k has the id of the cached actor, is alive and of a kind
\* the asking actor targets
still_valid(k) ==
    /\ probe.ctx.entities[k].id = probe.ctx.target_cache[probe_key].id
    /\ probe.ctx.entities[k].alive
    /\ is_kind_targetable(probe_flags, probe.ctx.entities[k].kind)
\* snapshot entry k is another actor, alive and of a kind the asking actor
\* targets
scan_eligible(k) ==
    /\ probe.ctx.entities[k].id # probe.entity.uid
    /\ probe.ctx.entities[k].alive
    /\ is_kind_targetable(probe_flags, probe.ctx.entities[k].kind)
scan_dist(k) == distance_squared(probe.entity.pos, probe.ctx.entities[k].pos)
\* the eligible entry at the least squared distance, the earliest of them
scan_answer ==
    LET idx == 1..Len(probe.ctx.entities)
    IN  IF \E k \in idx : scan_eligible(k)
        THEN probe.ctx.entities[CHOOSE k \in idx :
                 /\ scan_eligible(k)
                 /\ \A j \in idx : scan_eligible(j) =>
                        \/ scan_dist(k) < scan_dist(j)
                        \/ scan_dist(k) = scan_dist(j) /\ k <= j]
        ELSE None

\* C22: on a cache hit that holds an actor, resolve_target reuses the
\* remembered target only if the snapshot has an entry of that id that is
\* alive and of a targeted kind: it then answers with that entry and leaves
\* the cache alone.  Otherwise it answers with the result of the full scan
\* and writes that result, none included, over the cache entry; the other
\* cache entries stay.
C22_CachedActorRevalidated ==
    (asks_cache /\ cached_actor) =>
        LET idx == 1..Len(probe.ctx.entities)
        IN  IF \E k \in idx : still_valid(k)
            THEN /\ IsSome(probe.result)
                 /\ probe.result.id = probe.ctx.target_cache[probe_key].id
                 /\ \E k \in idx : still_valid(k) /\ probe.result = probe.ctx.entities[k]
                 /\ probe.target_cache = probe.ctx.target_cache
            ELSE /\ probe.result = scan_answer
                 /\ probe.target_cache =
                       [probe.ctx.target_cache EXCEPT ![probe_key] = scan_answer]

\* C22 witness: the remembered actor is no longer in the snapshot and no
\* other actor is eligible; the call has answered none and the cache entry
\* now holds none
C22_Witness ==
    /\ asks_cache /\ cached_actor
    /\ \A k \in 1..Len(probe.ctx.entities) : ~still_valid(k)
    /\ probe.result = None
    /\ probe.target_cache[probe_key] = None

\* C23: when resolve_target runs the full scan (the key is not in the cache,
\* or the remembered actor is no longer valid) it answers with the snapshot
\* entry, other than the asking actor, that is alive, of a targeted kind and
\* nearest by squared distance, the earliest in snapshot order among equally
\* near ones; it answers none exactly when there is no such entry.
C23_ScanNearest ==
    (/\ asks_cache
     /\ \/ probe_key \notin DOMAIN probe.ctx.target_cache
        \/ cached_actor /\ \A k \in 1..Len(probe.ctx.entities) : ~still_valid(k)) =>
        /\ probe.result = scan_answer
        /\ (probe.result = None) <=>
               ~\E k \in 1..Len(probe.ctx.entities) : scan_eligible(k)
        /\ IsSome(probe.result) =>
               \E k \in 1..Len(probe.ctx.entities) :
                  /\ scan_eligible(k) /\ probe.result = probe.ctx.entities[k]
                  /\ \A j \in 1..Len(probe.ctx.entities) : scan_eligible(j) =>
                         /\ scan_dist(k) <= scan_dist(j)
                         /\ scan_dist(k) = scan_dist(j) => k <= j

\* C23 witness: the asking actor targets its own kind, the cache has no entry
\* for it, and two eligible actors are equally near; the scan has answered
\* with the earlier of the two and not with the asking actor itself
C23_Witness ==
    /\ asks_cache /\ probe_key \notin DOMAIN probe.ctx.target_cache
    /\ is_kind_targetable(probe_flags, Entities[probe.entity.def].kind)
    /\ \E k, j \in 1..Len(probe.ctx.entities) :
          /\ k < j /\ scan_eligible(k) /\ scan_eligible(j)
          /\ scan_dist(k) = scan_dist(j)
          /\ probe.result = probe.ctx.entities[k]


\* the rectangles of the dynamic obstacle set of the probed move
probe_obstacles ==
    {probe.result.dynamic_collision_scratch[i] :
        i \in 1..Len(probe.result.dynamic_collision_scratch)}
\* the snapshot hitboxes of the actors satisfying the test
snapshot_hitboxes(Test(_)) ==
    {probe.ctx.entities[k].hitbox :
        k \in {j \in 1..Len(probe.ctx.entities) : Test(probe.ctx.entities[j])}}

\* C26: the dynamic obstacle set gathered for an actor holds neither the
\* actor's own hitbox nor the hitbox of its current target, be it the player
\* or an actor; it is empty for an actor with the no-entity-collision flag;
\* it is without the player's hitbox when the actor has the
\* no-player-collision flag or there is no player; and it holds no hitbox of
\* an actor of a kind whose no-{kind}-collision flag the actor has.
C26_ObstacleExclusions ==
    called("move_and_collide") =>
        LET flags == probe_flags
            target == probe.entity.current_target
            c == probe.ctx
        IN  /\ snapshot_hitboxes(LAMBDA o : o.id = probe.entity.uid) \cap probe_obstacles = {}
            /\ world_hitbox(probe.entity.def, probe.entity.pos) \notin probe_obstacles
            /\ target.tag = "Player" =>
                  /\ target.hitbox \notin probe_obstacles
                  /\ IsSome(c.player) => c.player.hitbox \notin probe_obstacles
            /\ target.tag = "Entity" =>
                  /\ target.hitbox \notin probe_obstacles
                  /\ snapshot_hitboxes(LAMBDA o : o.id = target.id) \cap probe_obstacles = {}
            /\ has_flag(flags, DEF_FLAG_NO_ENTITY_COLLISION) =>
                  probe.result.dynamic_collision_scratch = <<>>
            /\ (has_flag(flags, DEF_FLAG_NO_PLAYER_COLLISION) /\ IsSome(c.player)) =>
                  c.player.hitbox \notin probe_obstacles
            /\ ~IsSome(c.player) =>
                  probe_obstacles \subseteq snapshot_hitboxes(LAMBDA o : TRUE)
            /\ has_flag(flags, DEF_FLAG_NO_ENEMY_COLLISION) =>
                  snapshot_hitboxes(LAMBDA o : o.kind = "Enemy") \cap probe_obstacles = {}
            /\ has_flag(flags, DEF_FLAG_NO_FRIEND_COLLISION) =>
                  snapshot_hitboxes(LAMBDA o : o.kind = "Friend") \cap probe_obstacles = {}
            /\ has_flag(flags, DEF_FLAG_NO_MISC_COLLISION) =>
                  snapshot_hitboxes(LAMBDA o : o.kind = "Misc") \cap probe_obstacles = {}

\* C26 witness: an actor that collides with neither friends nor misc actors
\* and has no target has moved next to the player, an enemy, a friend and a
\* misc actor; its obstacles are the hitboxes of the player and of the enemy
C26_Witness ==
    /\ called("move_and_collide")
    /\ has_flag(probe_flags, DEF_FLAG_NO_FRIEND_COLLISION)
    /\ has_flag(probe_flags, DEF_FLAG_NO_MISC_COLLISION)
    /\ probe.entity.current_target = None /\ IsSome(probe.ctx.player)
    /\ probe.result.dynamic_collision_scratch =
          <<probe.ctx.player.hitbox>>
             \o SelectSeq([k \in 1..Len(probe.ctx.entities) |-> probe.ctx.entities[k].hitbox],
                          LAMBDA hb : hb \in snapshot_hitboxes(LAMBDA o : o.kind = "Enemy"))


\* the world hitbox at the position resolve_collisions_axis returned
landed_rect ==
    Rect(probe.result.pos.x + probe.hitbox.x, probe.result.pos.y + probe.hitbox.y,
         probe.hitbox.w, probe.hitbox.h)
\* the returned position differs from the given one along the axis of the
\* call only, and lies against the direction of motion
pushed_back ==
    IF probe.axis = "X"
    THEN /\ probe.result.pos.y = probe.pos.y
         /\ IF probe.vel_axis > 0 THEN probe.result.pos.x < probe.pos.x
            ELSE probe.result.pos.x > probe.pos.x
    ELSE /\ probe.result.pos.x = probe.pos.x
         /\ IF probe.vel_axis > 0 THEN probe.result.pos.y < probe.pos.y
            ELSE probe.result.pos.y > probe.pos.y

\* C27: when resolve_collisions_axis is called with a non-zero axis velocity
\* and the hitbox overlaps at least one collider, the returned axis velocity
\* is 0, only the coordinate of the axis changes, the actor is moved against
\* its direction of motion, and at the returned position the hitbox overlaps
\* no rectangle of the collider list.
C27_AxisPushClear ==
    (called("resolve_collisions_axis") /\ probe.vel_axis # 0 /\ ~clear_of_colliders) =>
        /\ probe.result.vel = 0
        /\ pushed_back
        /\ \A k \in 1..Len(probe.colliders) : ~overlaps(landed_rect, probe.colliders[k])


\* the world hitboxes of a live set
hitboxes_of(ents) == [k \in 1..Len(ents) |-> world_hitbox(ents[k].def, ents[k].pos)]
\* the hitboxes a and b penetrate each other along both axes
penetrating(a, b) ==
    /\ Min(a.x + a.w, b.x + b.w) - Max(a.x, b.x) > 0
    /\ Min(a.y + a.h, b.y + b.h) - Max(a.y, b.y) > 0
\* the live set has a pair of mutually collidable actors whose hitboxes
\* penetrate each other
collidable_overlap(ents) ==
    \E i, j \in 1..Len(ents) :
        /\ i < j
        /\ entities_should_collide(ents[i].def, ents[j].def)
        /\ penetrating(hitboxes_of(ents)[i], hitboxes_of(ents)[j])

\* C29: resolve_entity_overlaps runs at most 3 passes; a further pass is run
\* only after a pass that had a correction to make, and the call returns
\* after the first pass that made none; on a live set of fewer than 2 actors
\* no pass is run, and on a live set without a mutually collidable
\* overlapping pair every actor is left where it was.  What the call returns
\* is what the frame driver's separator returns for the same live set.
C29_BoundedPasses ==
    [][ probe'.fn = "resolve_entity_overlaps" =>
           /\ probe'.passes <= OVERLAP_PASSES
           /\ probe'.passes = probe.passes + 1 =>
                 /\ Len(probe.ents) >= 2
                 /\ probe.passes > 0 => (probe.any /\ collidable_overlap(probe.before))
           /\ probe'.stage = "done" =>
                 /\ probe'.result = resolve_entity_overlaps(probe'.ents)
                 /\ Len(probe'.ents) < 2 => probe'.passes = 0
                 /\ Len(probe'.ents) >= 2 =>
                       /\ probe'.passes >= 1
                       /\ probe'.passes < OVERLAP_PASSES =>
                             (~probe'.any /\ ~collidable_overlap(probe'.before))
                 /\ (Len(probe'.ents) < 2 \/ ~collidable_overlap(probe'.ents)) =>
                       /\ probe'.result = probe'.ents
                       /\ probe'.passes <= 1
      ]_vars

\* C29 witness: the call has returned after its third pass although two
\* actors still overlap
C29_Witness ==
    /\ probe.fn = "resolve_entity_overlaps" /\ probe.stage = "done"
    /\ probe.passes = OVERLAP_PASSES
    /\ collidable_overlap(probe.result)

\* the amount a brute-force pass adds to actor i and takes from actor j along
\* the axis for the pair (i, j), i < j
pair_amount(ents, i, j, axis) ==
    LET Along(p) == IF IsSome(p) /\ p.axis = axis THEN p.push ELSE 0
    IN  Along(pair_push(entities_should_collide(ents[i].def, ents[j].def),
                       hitboxes_of(ents), i, j))
RECURSIVE brute_shift(_, _, _, _)
\* the sum of the corrections of actor k along the axis over the partners
\* from j on
brute_shift(ents, k, axis, j) ==
    IF j > Len(ents) THEN 0
    ELSE (IF j = k THEN 0
          ELSE IF k < j THEN pair_amount(ents, k, j, axis)
          ELSE -pair_amount(ents, j, k, axis))
         + brute_shift(ents, k, axis, j + 1)
\* a pass over all pairs i < j from the hitboxes at the start of the pass,
\* followed by the clamp to the map when a pair was corrected
brute_pass(ents) ==
    IF \E i, j \in 1..Len(ents) :
          i < j /\ IsSome(pair_push(entities_should_collide(ents[i].def, ents[j].def),
                       hitboxes_of(ents), i, j))
    THEN [k \in 1..Len(ents) |->
            clamp_to_map([ents[k] EXCEPT
                            !.pos = Vec2(@.x + brute_shift(ents, k, "X", 1),
                                         @.y + brute_shift(ents, k, "Y", 1))])]
    ELSE ents

\* C30: in a pass of the separator every pair of actors whose hitboxes at
\* the start of the pass overlap is evaluated exactly once, and no pair is
\* evaluated twice, also when the two hitboxes share several grid cells; the
\* positions after the pass are those of a brute-force pass over all pairs
\* i < j from the hitboxes at the start of the pass.
C30_PairsOnce ==
    [][ (probe'.fn = "resolve_entity_overlaps" /\ probe'.passes = probe.passes + 1) =>
           \E hbs \in {hitboxes_of(probe.result)} :
           \E pairs \in {pass_pairs(hbs, 1)} :
              /\ \A i, j \in 1..Len(hbs) :
                    (i < j /\ overlaps(hbs[i], hbs[j])) =>
                        Cardinality({k \in 1..Len(pairs) : pairs[k] = <<i, j>>}) = 1
              /\ \A k, l \in 1..Len(pairs) : k # l => pairs[k] # pairs[l]
              /\ \A k \in 1..Len(pairs) : pairs[k][1] < pairs[k][2]
              /\ probe'.result = brute_pass(probe.result)
      ]_vars

\* C30 witness: a pass has pushed apart two actors whose hitboxes share more
\* than one grid cell
C30_Witness ==
    /\ probe.fn = "resolve_entity_overlaps" /\ probe.passes >= 1 /\ probe.any
    /\ \E i, j \in 1..Len(probe.before) :
          /\ i < j
          /\ entities_should_collide(probe.before[i].def, probe.before[j].def)
          /\ penetrating(hitboxes_of(probe.before)[i], hitboxes_of(probe.before)[j])
          /\ \E ri \in {rect_cell_range(hitboxes_of(probe.before)[i],
                                         OVERLAP_CELL_SIZE * LenScale)} :
             \E rj \in {rect_cell_range(hitboxes_of(probe.before)[j],
                                         OVERLAP_CELL_SIZE * LenScale)} :
                Cardinality(
                    {c \in (Max(ri.min_cx, rj.min_cx)..Min(ri.max_cx, rj.max_cx))
                             \X (Max(ri.min_cy, rj.min_cy)..Min(ri.max_cy, rj.max_cy)) :
                        TRUE}) > 1
          /\ probe.result[i].pos # probe.before[i].pos

\* the actor k of the pass has the no-entity-collision flag
exempt(ents, k) == has_flag(db.entities[ents[k].def].flags, DEF_FLAG_NO_ENTITY_COLLISION)
\* the collidability rule as the specification words it: neither definition
\* has the no-entity-collision flag and neither has the no-{kind}-collision
\* flag for the kind of the other
may_push(a_def_idx, b_def_idx) ==
    /\ ~has_flag(db.entities[a_def_idx].flags, DEF_FLAG_NO_ENTITY_COLLISION)
    /\ ~has_flag(db.entities[b_def_idx].flags, DEF_FLAG_NO_ENTITY_COLLISION)
    /\ ~blocks_kind(a_def_idx, db.entities[b_def_idx].kind)
    /\ ~blocks_kind(b_def_idx, db.entities[a_def_idx].kind)

\* C31: the separator pushes two actors apart only if neither definition has
\* the no-entity-collision flag and neither has the no-{kind}-collision flag
\* for the other's kind: an actor a pass has moved penetrated, at the start
\* of the pass, an actor it may be pushed from.  The rule is symmetric in the
\* two definitions, every value cached under an unordered pair of
\* definitions equals the rule evaluated in either order, and an actor whose
\* definition has no-entity-collision is where the clamp to the map alone
\* puts it.
C31_Collidability ==
    /\ \A a, b \in 1..Len(db.entities) :
          /\ entities_should_collide(a, b) = entities_should_collide(b, a)
          /\ entities_should_collide(a, b) = may_push(a, b)
    /\ (probe.fn = "resolve_entity_overlaps" /\ probe.passes >= 1) =>
          /\ \A pair \in DOMAIN probe.collide_cache :
                /\ pair[1] <= pair[2]
                /\ probe.collide_cache[pair] = entities_should_collide(pair[1], pair[2])
                /\ probe.collide_cache[pair] = entities_should_collide(pair[2], pair[1])
          /\ \A k \in 1..Len(probe.before) :
                /\ probe.result[k].pos # probe.before[k].pos =>
                      \E j \in 1..Len(probe.before) :
                          /\ j # k
                          /\ may_push(probe.before[k].def, probe.before[j].def)
                          /\ penetrating(hitboxes_of(probe.before)[k],
                                         hitboxes_of(probe.before)[j])
                /\ exempt(probe.before, k) =>
                      probe.result[k].pos =
                          (IF probe.any THEN clamp_to_map(probe.before[k])
                           ELSE probe.before[k]).pos

\* C31 witness: a pass has pushed a pair apart while an actor with
\* no-entity-collision and an actor excluding the other's kind, each
\* penetrating another actor, stayed in place; the cache holds both answers
C31_Witness ==
    /\ probe.fn = "resolve_entity_overlaps" /\ probe.passes >= 1 /\ probe.any
    /\ \E p, q \in DOMAIN probe.collide_cache :
          probe.collide_cache[p] /\ ~probe.collide_cache[q]
    /\ \E k, j \in 1..Len(probe.before) :
          /\ j # k
          /\ exempt(probe.before, k)
          /\ penetrating(hitboxes_of(probe.before)[k], hitboxes_of(probe.before)[j])
          /\ probe.result[k].pos = probe.before[k].pos
    /\ \E k \in 1..Len(probe.before) : probe.result[k].pos # probe.before[k].pos

\* the world hitbox of the actor lies inside the world's bounding rectangle
inside_map(e) ==
    LET In(b, h) == /\ b.x <= h.x /\ h.x + h.w <= b.x + b.w
                    /\ b.y <= h.y /\ h.y + h.h <= b.y + b.h
    IN  In(get_border_hitbox, world_hitbox(e.def, e.pos))
\* the hitbox of the actor's definition is not larger than the world's
\* bounding rectangle
fits_map(e) ==
    /\ db.entities[e.def].hitbox.w <= get_border_hitbox.w
    /\ db.entities[e.def].hitbox.h <= get_border_hitbox.h

\* C32: after its Update and the clamp that follows it, and at the end of
\* the frame after the overlap separator (all its passes), the world hitbox
\* of every actor whose hitbox is not larger than the world's bounding
\* rectangle lies inside that rectangle; clamping an actor whose hitbox is
\* already inside leaves its position unchanged.
C32_InsideMap ==
    /\ \A k \in 1..Len(entities) :
          /\ (fits_map(entities[k]) /\ (pc = "apply" \/ (pc = "update" /\ k < ent_idx)))
                => inside_map(entities[k])
          /\ inside_map(entities[k]) => clamp_to_map(entities[k]) = entities[k]
    /\ (pc = "update" /\ ent_idx > Len(entities)) =>
          \A k \in 1..Len(entities) :
              fits_map(entities[k]) => inside_map(resolve_entity_overlaps(entities)[k])
    /\ (pc = "update" /\ ent_idx <= Len(entities)) =>
          \A rnd \in RndInputs(entities[ent_idx]) :
              \E r \in {update(entities[ent_idx], ctx, dt, rnd).entity} :
                  inside_map(r) => clamp_to_map(r) = r

\* C32 witness: every actor has had its Update, one of them was carried
\* against the border, and the separator that follows pushes in each of its
\* three passes and has to clamp an actor its first pass pushed off the map
C32_Witness ==
    /\ pc = "update" /\ ent_idx > Len(entities) /\ Len(entities) >= 2
    /\ \E k \in 1..Len(entities) :
          \E h \in {world_hitbox(entities[k].def, entities[k].pos)} :
              \/ h.x = get_border_hitbox.x
              \/ h.y = get_border_hitbox.y
              \/ h.x + h.w = get_border_hitbox.x + get_border_hitbox.w
              \/ h.y + h.h = get_border_hitbox.y + get_border_hitbox.h
    /\ \E r1 \in {overlap_pass(entities, [pair \in {} |-> FALSE])} :
          /\ r1.any
          /\ \E k \in 1..Len(entities) :
                ~inside_map(separate_pairs(entities, hitboxes_of(entities),
                                           [pair \in {} |-> FALSE]).ents[k])
          /\ \E r2 \in {overlap_pass(r1.ents, r1.collide_cache)} :
                r2.any /\ overlap_pass(r2.ents, r2.collide_cache).any

----------------------------------------------------------------------------
(* Properties of the movement part of consecutive Updates, under SpecCalls *)

\* the probe holds the actor after at least one Update's movement part
moved_once == probe.fn = "move_behaviors" /\ probe.calls >= 1
\* the speed parameters of the dash entries running after the routines (2200
\* for an entry that carries none, entity.rs:403-407), as magnitudes
dash_speeds(entity) ==
    {Abs(Get(entity.behaviors[k].params, "dash_speed", 22000)) :
        k \in {j \in 1..Len(entity.behaviors) :
                  /\ entity.behaviors[j].name = "dash_at_target"
                  /\ entity.behaviors[j].timer > 0}}
\* max(actor.speed, 1), or the larger of it and the running dashes' speeds
speed_limit(entity) ==
    CHOOSE m \in {Max(entity.speed, VelScale)} \cup dash_speeds(entity) :
        \A n \in {Max(entity.speed, VelScale)} \cup dash_speeds(entity) : n <= m
\* v points where u points, up to the rounding of the components of v
same_direction(u, v) ==
    /\ u.x * v.x >= 0 /\ u.y * v.y >= 0
    /\ Abs(u.x * v.y - u.y * v.x) <= Abs(u.x) + Abs(u.y)
    /\ v # ZERO

\* C33: after the movement routines of an Update have run, the magnitude of
\* the actor's velocity is at most max(actor.speed, 1) when no dash entry is
\* running, and at most the larger of that value and the speed parameter of
\* a running dash_at_target entry otherwise; a velocity within the limit is
\* left as the routines set it, and a clamped velocity keeps its direction.
C33_SpeedLimit ==
    moved_once =>
        /\ length(probe.entity.vel) <= speed_limit(probe.entity)
        /\ dash_speeds(probe.entity) = {} =>
              length(probe.entity.vel) <= Max(probe.entity.speed, VelScale)
        /\ length(probe.raw.vel) <= speed_limit(probe.entity) =>
              probe.entity.vel = probe.raw.vel
        /\ length(probe.raw.vel) > speed_limit(probe.entity) =>
              same_direction(probe.raw.vel, probe.entity.vel)
        /\ probe.entity.behaviors = probe.raw.behaviors

\* C33 witness: the routines left a running dash with a velocity that is
\* over the dash's speed and points along neither axis; it has been clamped
C33_Witness ==
    /\ moved_once
    /\ dash_speeds(probe.entity) # {}
    /\ length(probe.raw.vel) > speed_limit(probe.entity)
    /\ probe.raw.vel.x # 0 /\ probe.raw.vel.y # 0
    /\ probe.entity.vel # probe.raw.vel

----------------------------------------------------------------------------
(* Further properties of the tree evaluation, checked under SpecTree *)

RECURSIVE concat_all(_, _)
\* the secondary actions of the children from child k on, in child order
concat_all(results, k) ==
    IF k > Len(results) THEN <<>>
    ELSE results[k].multiple \o concat_all(results, k + 1)
\* the primary action of the last child that produced one, or none
last_primary(results) ==
    LET with == {k \in 1..Len(results) : IsSome(results[k].action)}
    IN  IF with = {} THEN None
        ELSE results[CHOOSE k \in with : \A j \in with : j <= k].action
\* what a Sequence all of whose children succeed evaluates to
sequence_result(node) ==
    [action |-> last_primary(child_results(node)),
     multiple |-> concat_all(child_results(node), 1),
     ok |-> TRUE]

\* C34: a Sequence all of whose children succeed succeeds; its primary action
\* is that of the last child, in child order, that produced one, or none if
\* no child produced one; its secondary actions are the secondary actions of
\* all its children concatenated in child order.  This holds of the root of
\* an evaluated tree and of every Sequence inside it.
C34_SequenceSuccess ==
    probe.stage # "input" =>
        /\ (probe.tree.type = "Sequence" /\ ~some_child_fails(probe.tree)) =>
              probe.result = sequence_result(probe.tree)
        /\ \A n \in sub_nodes(probe.tree) :
              (n.type = "Sequence" /\ ~some_child_fails(n)) =>
                  eval_behavior(n, probe.entity, CAMERA_FOV) = sequence_result(n)

\* C34 witness: an evaluated Sequence of three successful children of which
\* the first and the last produced different primary actions, the second
\* produced none, and two contributed secondary actions
C34_Witness ==
    /\ probe.stage = "evaluated"
    /\ probe.tree.type = "Sequence"
    /\ Len(probe.tree.children) = 3
    /\ ~some_child_fails(probe.tree)
    /\ IsSome(child_results(probe.tree)[1].action)
    /\ ~IsSome(child_results(probe.tree)[2].action)
    /\ IsSome(child_results(probe.tree)[3].action)
    /\ child_results(probe.tree)[1].action # child_results(probe.tree)[3].action
    /\ child_results(probe.tree)[1].multiple # <<>>
    /\ child_results(probe.tree)[3].multiple # <<>>
    /\ probe.result.action = child_results(probe.tree)[3].action
    /\ Len(probe.result.multiple) = 2

\* the distance from the probing actor to its target is at most
\* parameter x view height, the parameter being 1.0 when the node has none
within_range(node) ==
    distance(probe.entity.pos, TargetPosition(probe.entity.current_target)) * RatioScale
        <= (IF IsSome(node.value) THEN node.value.v ELSE RatioScale)
              * CAMERA_FOV * LenScale

----------------------------------------------------------------------------
(* Properties of the frames with clicked structures, under SpecInteract *)

\* the player's world hitbox where the player stands
player_rect == Rect(player.pos.x + PlayerHitbox.x, player.pos.y + PlayerHitbox.y,
                    PlayerHitbox.w, PlayerHitbox.h)
\* no event of the list targets the player
spares_player(events) == \A i \in 1..Len(events) : events[i].target.tag # "Player"

----------------------------------------------------------------------------
(* Further properties of the frame driver, checked under Spec *)

\* the actor's cache entry remembers an actor that this frame's snapshot
\* still holds, alive and of a kind the actor targets
cached_target_valid(e) ==
    /\ cache_key(e) \in DOMAIN target_cache_now
    /\ IsSome(target_cache_now[cache_key(e)])
    /\ \E k \in 1..Len(ctx.entities) :
          /\ ctx.entities[k].id = target_cache_now[cache_key(e)].id
          /\ ctx.entities[k].alive
          /\ is_kind_targetable(Entities[e.def].flags, ctx.entities[k].kind)
\* some eligible snapshot entry is strictly nearer to the place than the
\* entry of the given id
nearer_than(e, place, id) ==
    \E k, t \in 1..Len(ctx.entities) :
        /\ ctx.entities[t].id = id
        /\ eligible(e, ctx.entities[k])
        /\ distance_squared(place, ctx.entities[k].pos)
              < distance_squared(place, ctx.entities[t].pos)

\* C37: the target cache passes unchanged from the driver into the next
\* frame's context and back, and an Update changes at most its own actor's
\* entry.  While the actor an entry remembers stays in the snapshot, alive
\* and of an eligible kind, every Update of the cache's actor (no
\* target-player flag, mask not 0) resolves to that same id and leaves the
\* entry remembering it, also when another eligible candidate is strictly
\* nearer; the Update resolves to another id, or to none, only when the
\* remembered actor is dead, gone or ineligible.
C37_StickyTarget ==
    [][ /\ ~(pc = "update" /\ ent_idx <= Len(entities)) =>
              target_cache_now' = target_cache_now
        /\ (pc = "update" /\ ent_idx <= Len(entities)) =>
              LET e == entities[ent_idx]
                  key == cache_key(e)
                  after == entities'[ent_idx].current_target
              IN  /\ \A q \in DOMAIN target_cache_now :
                        q # key => /\ q \in DOMAIN target_cache_now'
                                   /\ target_cache_now'[q] = target_cache_now[q]
                  /\ (/\ ~has_flag(Entities[e.def].flags, DEF_FLAG_TARGET_PLAYER)
                      /\ key[2] # 0
                      /\ key \in DOMAIN target_cache_now
                      /\ IsSome(target_cache_now[key])) =>
                        /\ cached_target_valid(e) =>
                              /\ after.tag = "Entity"
                              /\ after.id = target_cache_now[key].id
                              /\ IsSome(target_cache_now'[key])
                              /\ target_cache_now'[key].id = target_cache_now[key].id
                        /\ (after = None \/ after.id # target_cache_now[key].id) =>
                              ~cached_target_valid(e)
      ]_vars

\* C37 witness: in a frame after the one that filled its cache entry, an
\* actor has been updated and still holds the remembered target although
\* another eligible actor of the snapshot was strictly nearer to it
C37_Witness ==
    /\ pc = "update" /\ frame >= 2
    /\ \E k \in 1..Len(entities) :
          /\ k < ent_idx
          /\ ~has_flag(Entities[entities[k].def].flags, DEF_FLAG_TARGET_PLAYER)
          /\ cache_key(entities[k]) \in DOMAIN ctx.target_cache
          /\ IsSome(ctx.target_cache[cache_key(entities[k])])
          /\ entities[k].current_target.tag = "Entity"
          /\ entities[k].current_target.id = ctx.target_cache[cache_key(entities[k])].id
          /\ nearer_than(entities[k], ctx.entities[k].pos, entities[k].current_target.id)

\* the place of the first dash_at_target entry in the list, 0 when none
dash_index(behaviors) ==
    IF \E k \in 1..Len(behaviors) : behaviors[k].name = "dash_at_target"
    THEN CHOOSE k \in 1..Len(behaviors) :
             /\ behaviors[k].name = "dash_at_target"
             /\ \A j \in 1..(k - 1) : behaviors[j].name # "dash_at_target"
    ELSE 0
\* what the step leaves of a timer or cooldown
run_down(t, step) == IF t > 0 THEN Max(t - step, 0) ELSE t
\* the probed call has started a dash: it has raised the dash timer
dash_started ==
    /\ dash_index(probe.before.behaviors) > 0
    /\ probe.entity.behaviors[dash_index(probe.before.behaviors)].timer
          > probe.before.behaviors[dash_index(probe.before.behaviors)].timer

\* C38: a dash_at_target entry that stays selected over consecutive Updates
\* starts a dash only in a call in which its timer and its cooldown, run
\* down by the step, are both 0 and the actor has a target more than 0.01
\* away; a call that starts no dash leaves the dash direction as it was, so
\* the direction does not change while a dash runs; and two consecutive
\* starts are at least max(dash_duration, dash_cooldown) of simulated time
\* apart.
C38_DashRhythm ==
    (moved_once /\ dash_index(probe.before.behaviors) > 0) =>
        LET k == dash_index(probe.before.behaviors)
            old == probe.before.behaviors[k]
            new == probe.entity.behaviors[k]
            target == probe.before.current_target
        IN  /\ dash_started =>
                  /\ run_down(old.timer, probe.step) = 0
                  /\ run_down(old.cooldown, probe.step) = 0
                  /\ IsSome(target)
                  /\ length_squared(VSub(TargetPosition(target), probe.before.pos)) > 100
                  /\ probe.since = 0
            /\ ~dash_started => new.dir = old.dir
            /\ (old.timer > 0 /\ new.timer > 0 /\ new.timer <= old.timer) =>
                  new.dir = old.dir
            /\ probe.gap >= 0 =>
                  probe.gap >= Max(Get(old.params, "dash_duration", 420),
                                   Get(old.params, "dash_cooldown", 3000))

\* C38 witness: the entry has started two dashes; the second one is running,
\* the call just made has left its direction although the actor's target now
\* lies another way
C38_Witness ==
    /\ moved_once /\ dash_index(probe.before.behaviors) > 0
    /\ probe.gap >= 0 /\ probe.since > 0
    /\ ~dash_started
    /\ probe.entity.behaviors[dash_index(probe.before.behaviors)].timer > 0
    /\ IsSome(probe.before.current_target)
    /\ length_squared(VSub(TargetPosition(probe.before.current_target),
                           probe.before.pos)) > 100
    /\ normalize(VSub(TargetPosition(probe.before.current_target), probe.before.pos))
          # probe.entity.behaviors[dash_index(probe.before.behaviors)].dir

\* the rectangle touches the hitbox the probed actor had before the move
on_probed_hitbox(r) ==
    overlaps(world_hitbox(probe.entity.def, probe.entity.pos), r)

\* C39: an actor whose velocity is zero after the speed clamp, as that of an
\* actor whose only behaviour is idle is, has after the move of its Update
\* the position it had before and still no velocity, whatever terrain or
\* dynamic obstacles its hitbox overlaps; and resolve_collisions_axis called
\* with an axis velocity of 0 returns the position and the velocity it was
\* given.
C39_RestStays ==
    /\ (called("move_and_collide") /\ probe.entity.vel = ZERO) =>
          /\ probe.result.pos = probe.entity.pos
          /\ probe.result.vel = ZERO
    /\ (called("resolve_collisions_axis") /\ probe.vel_axis = 0) =>
          probe.result = [pos |-> probe.pos, vel |-> 0]
    /\ (moved_once /\ \A k \in 1..Len(probe.before.behaviors) :
                          probe.before.behaviors[k].name = "idle") =>
          probe.entity.vel = ZERO

\* C39 witness: an actor without velocity whose hitbox lies on a solid tile
\* and on another actor's hitbox, both gathered for the sweep, has been moved
C39_Witness ==
    /\ called("move_and_collide") /\ probe.entity.vel = ZERO
    /\ \E i \in 1..Len(probe.result.dynamic_collision_scratch) :
          on_probed_hitbox(probe.result.dynamic_collision_scratch[i])
    /\ \E i \in 1..Len(probe.result.collision_scratch) :
          /\ on_probed_hitbox(probe.result.collision_scratch[i])
          /\ \A j \in 1..Len(probe.result.dynamic_collision_scratch) :
                probe.result.dynamic_collision_scratch[j]
                    # probe.result.collision_scratch[i]
    /\ probe.result.pos = probe.entity.pos

RECURSIVE contributed(_, _, _)
\* what the first n traits of the list contribute to the stat key, an
\* absent value counted as 0
contributed(trait_indices, key, n) ==
    IF n = 0 THEN 0
    ELSE Get(Traits[trait_indices[n]].stats, key, 0)
         + contributed(trait_indices, key, n - 1)
\* the stat keys the template or one of its traits names
stat_keys(def) ==
    DOMAIN def.base_stats
        \cup UNION {DOMAIN Traits[def.traits[n]].stats : n \in 1..Len(def.traits)}
\* the trait list in the order perm
reordered(trait_indices, perm) ==
    [n \in 1..Len(trait_indices) |-> trait_indices[perm[n]]]

\* C40: every stat of a spawned actor is the template's base value for the
\* key plus the sum of what its traits contribute to it (an absent value
\* counts as 0), whatever the order of the traits; max_hp is the larger of
\* the hp stat (1 when absent) and 1, hp is max_hp, and the speed is the
\* larger of the speed stat (the template's base speed when absent) and 1.
C40_SpawnStats ==
    (called("spawn") /\ IsSome(probe.result)) =>
        LET e == probe.result.v
            def == Entities[e.def]
        IN  /\ DOMAIN e.stats = stat_keys(def)
            /\ \A key \in stat_keys(def) :
                  e.stats[key] = Get(def.base_stats, key, 0)
                                   + contributed(def.traits, key, Len(def.traits))
            /\ \A perm \in Permutations(1..Len(def.traits)) :
                  merge_traits(def.base_stats, reordered(def.traits, perm), 1) = e.stats
            /\ e.max_hp = Max(IF "hp" \in DOMAIN e.stats THEN e.stats.hp ELSE 1, 1)
            /\ e.hp = e.max_hp
            /\ e.speed = Max(IF "speed" \in DOMAIN e.stats THEN e.stats.speed
                             ELSE def.speed, VelScale)

\* C40 witness: a spawned virabird has an armor of 4, its base value of 1
\* plus the 1 and the 2 of its two traits, a speed stat of 900 in place of
\* the base speed of 600, and 1 hp as no hp stat is named
C40_Witness ==
    /\ called("spawn") /\ probe.id = "virabird" /\ IsSome(probe.result)
    /\ Entities[3].base_stats.armor = 1 /\ Entities[3].traits = <<4, 2>>
    /\ probe.result.v.stats.armor = 4
    /\ probe.result.v.speed = 900 /\ Entities[3].speed = 600
    /\ "hp" \notin DOMAIN probe.result.v.stats
    /\ probe.result.v.max_hp = 1 /\ probe.result.v.hp = 1
====
